---- MODULE Spec2Model ----
(***************************************************************************)
(* A model of the PRU simulation engine: the fixed-timestep tick loop      *)
(* (src/src/app.rs), its controls (src/src/ui/controls.rs), the physics    *)
(* stage (src/src/pru/gravity.rs) and the emergent-structure rules         *)
(* (src/src/astro/formation.rs).                                           *)
(*                                                                         *)
(* Numbers.  The program computes in f32.  The model computes in fixed     *)
(* point and leaves f32 rounding out:                                      *)
(*   - time_scale is counted in tenths (1.0 = 10), the step of the speed   *)
(*     controls;                                                           *)
(*   - a wall-clock delta is counted in whole multiples of 1/60 s;         *)
(*   - accumulated_time, simulation_time and dt are counted in tenths of   *)
(*     1/60 s, so that delta * time_scale needs no division (dt = 10);     *)
(*   - lengths, densities, masses are counted in thousandths (Scale).      *)
(* The emergence rules are modelled on the x axis: their lattice is        *)
(* NumCells x 1 x 1 and every y and z coordinate is 0, so a Vec3 is its x  *)
(* component and length() is the absolute value.  The physics stage and    *)
(* the field pass with its metrics compute on triples.                     *)
(***************************************************************************)
EXTENDS Integers, Sequences, FiniteSets, TLC

VARIABLES
    sim_state,          \* app.rs SimulationState
    pending_steps,      \* steps handed to the physics stage (take_pending_steps)
    integration_steps,  \* history: iterations of the physics loop run so far
    ran,                \* systems of the Update schedule already run this frame
    ev,                 \* history: the system that ran last, with its inputs
    cell_position,      \* PruCell.position of every cell
    derived,            \* DerivedFields of every cell
    stars,              \* the Star entities, in spawn order
    black_holes,        \* the BlackHole entities, in spawn order
    galaxies,           \* the Galaxy entities, in spawn order
    schedule,           \* formation.rs FormationSchedule
    id_counter,         \* galaxy.rs GalaxyIdCounter.next_id
    bh_last_run,        \* history: tick of the last black-hole pass (0: none)
    universe,           \* universe.rs PruUniverse: grid_dimensions and spacing
    bodies,             \* the (PruCell, PruDynamics) of every cell, in query order
    params,             \* gravity.rs GravityParams
    kernel,             \* gravity_relational.rs RelationalKernel, if inserted
    energy,             \* gravity.rs SimulationEnergy
    metrics,            \* universe.rs FieldMetrics
    report_log,         \* events.rs AstroReportLog
    calls,              \* history: field passes run, or reports pushed, so far
    agents,             \* the (AstroAgent, AgentTelemetry) of the galaxies that
                        \* have them, in the order of galaxies
    analysis_schedule   \* analysis.rs AnalysisSchedule

sched_vars == <<sim_state, pending_steps, integration_steps>>

astro_vars ==
    <<cell_position, derived, stars, black_holes, galaxies, schedule,
      id_counter, bh_last_run>>

phys_vars ==
    <<universe, bodies, params, kernel, energy, metrics, report_log, calls>>

agent_vars == <<agents, analysis_schedule>>

vars ==
    <<sim_state, pending_steps, integration_steps, ran, ev, cell_position,
      derived, stars, black_holes, galaxies, schedule, id_counter, bh_last_run,
      universe, bodies, params, kernel, energy, metrics, report_log, calls,
      agents, analysis_schedule>>

----------------------------------------------------------------------------
(* Bounds of the model. *)

\* Ticks are capped: a frame that would pass MaxTick is not taken.
MaxTick == 3

\* Largest wall-clock delta of one frame, in multiples of 1/60 s.
MaxDelta == 2

\* The speed controls are followed while time_scale, in tenths, stays within
\* MinSpeed..MaxSpeed (the program's own limits are MinTimeScale and
\* MaxTimeScale).
MinSpeed == 8

MaxSpeed == 11

----------------------------------------------------------------------------
(* Program constants. *)

\* SimulationState::default: dt = 1.0 / 60.0, in tenths of 1/60 s.
DefaultDt == 10

\* SimulationState::default: time_scale = 1.0, in tenths.
DefaultTimeScale == 10

\* adjust_speed: clamp(0.1, 10.0), in tenths.
MinTimeScale == 1

MaxTimeScale == 100

\* The speed keys and buttons: 0.1, in tenths.
SpeedDelta == 1

----------------------------------------------------------------------------
(* app.rs: SimulationState and its methods. *)

DefaultSimulationState ==
    [ running          |-> TRUE,
      time_scale       |-> DefaultTimeScale,
      tick             |-> 0,
      dt               |-> DefaultDt,
      accumulated_time |-> 0,
      simulation_time  |-> 0 ]

Clamp(x, lo, hi) == IF x < lo THEN lo ELSE IF x > hi THEN hi ELSE x

toggle(s) == [s EXCEPT !.running = ~s.running]

\* step_once that takes the tick back by one.
step_once_Rewinds(s) ==
    [s EXCEPT !.tick = IF s.tick > 0 THEN s.tick - 1 ELSE 0,
              !.simulation_time = s.simulation_time + s.dt]

\* step_once that also discards the accumulated remainder.
step_once_ResetsRemainder(s) ==
    [s EXCEPT !.tick = s.tick + 1,
              !.simulation_time = s.simulation_time + s.dt,
              !.accumulated_time = 0]

step_once(s) ==
    [s EXCEPT !.tick = s.tick + 1,
              !.simulation_time = s.simulation_time + s.dt]

\* adjust_speed with the upper limit only.
adjust_speed_NoFloor(s, delta) ==
    [s EXCEPT !.time_scale =
        IF s.time_scale + delta > MaxTimeScale THEN MaxTimeScale
        ELSE s.time_scale + delta]

adjust_speed(s, delta) ==
    [s EXCEPT !.time_scale = Clamp(s.time_scale + delta, MinTimeScale, MaxTimeScale)]

\* The loop with the test "accumulated_time > dt".
RECURSIVE DrainAccumulated_Strict(_)
DrainAccumulated_Strict(s) ==
    IF s.accumulated_time > s.dt
    THEN DrainAccumulated_Strict(
            [s EXCEPT !.accumulated_time = s.accumulated_time - s.dt,
                      !.tick = s.tick + 1,
                      !.simulation_time = s.simulation_time + s.dt])
    ELSE s

\* The while loop of advance_simulation_time.
RECURSIVE DrainAccumulated(_)
DrainAccumulated(s) ==
    IF s.accumulated_time >= s.dt
    THEN DrainAccumulated(
            [s EXCEPT !.accumulated_time = s.accumulated_time - s.dt,
                      !.tick = s.tick + 1,
                      !.simulation_time = s.simulation_time + s.dt])
    ELSE s

\* advance_simulation_time without the early return on a paused simulation.
AdvanceTime_IgnoresPause(s, delta_seconds) ==
    DrainAccumulated(
        [s EXCEPT !.accumulated_time =
                      s.accumulated_time + delta_seconds * s.time_scale])

\* advance_simulation_time on a frame whose wall-clock delta is delta_seconds.
AdvanceTime(s, delta_seconds) ==
    IF ~s.running
    THEN s
    ELSE DrainAccumulated(
            [s EXCEPT !.accumulated_time =
                          s.accumulated_time + delta_seconds * s.time_scale])

\* SimulationState::take_pending_steps, as gravity.rs uses it: the number of
\* steps pending, which the call resets.
take_pending_steps(p) == [steps |-> p, pending |-> 0]

----------------------------------------------------------------------------
(* The lattice (universe.rs) and the formation settings (formation.rs). *)

\* Fixed point: thousandths.
Scale == 10 ^ 3

\* setup_universe: spacing = 1.4.
Spacing == (14 * Scale) \div 10

\* The lattice dimensions of the model: one row of cells along x
\* (setup_universe builds 10 x 10 x 10).
GridDimensions == <<4, 1, 1>>

Cells == 1..GridDimensions[1]

\* PruCell.grid_coords of cell i.
GridCoords(i) == <<i - 1, 0, 0>>

\* setup_universe: position = grid * spacing - center_offset, with
\* center_offset = (grid_dimensions - 1) * 0.5 * spacing.
LatticePositions ==
    [i \in Cells |->
        GridCoords(i)[1] * Spacing - ((GridDimensions[1] - 1) * Spacing) \div 2]

\* The lattice after motion has brought the second cell to 0.1 from the first.
ClosePairPositions ==
    [LatticePositions EXCEPT ![2] = LatticePositions[1] + Scale \div 10]

PositionCases == {LatticePositions, ClosePairPositions}

\* DerivedFields::default.
DefaultDerivedFields ==
    [i \in Cells |-> [local_density |-> 0, curvature_proxy |-> 0]]

Field(d1, d2, d3, d4, c1) ==
    [i \in Cells |->
        [local_density |->
            (CASE i = 1 -> d1 [] i = 2 -> d2 [] i = 3 -> d3 [] OTHER -> d4),
         curvature_proxy |-> IF i = 1 THEN c1 ELSE Scale \div 10]]

\* The derived fields a pass of compute_derived_fields may leave: the first
\* region below every threshold and the second region dense but too light for
\* a galaxy (mass 1.5); two star-forming cells in the first region; a cell
\* dense and curved enough for a black hole, with the second region holding
\* exactly the mass a new galaxy needs (3.6 = 3 * galaxy_density_threshold).
FieldCases ==
    { Field(Scale, Scale, Scale, (15 * Scale) \div 10, 0),
      Field(2 * Scale, 2 * Scale, Scale, Scale, 0),
      Field(4 * Scale, Scale, Scale, (36 * Scale) \div 10,
            (3 * Scale) \div 10) }

\* FormationSettings::default.
DefaultFormationSettings ==
    [ star_density_threshold         |-> (18 * Scale) \div 10,
      black_hole_density_threshold   |-> 3 * Scale,
      black_hole_curvature_threshold |-> (25 * Scale) \div 100,
      galaxy_density_threshold       |-> (12 * Scale) \div 10,
      formation_interval             |-> 8,
      galaxy_refresh_interval        |-> 24,
      region_size                    |-> 3 ]

settings == DefaultFormationSettings

\* FormationSchedule::default.
DefaultFormationSchedule == [last_star_tick |-> 0, last_galaxy_tick |-> 0]

\* AnalysisSchedule::default.
DefaultAnalysisSchedule == [last_agent_tick |-> 0, agent_interval |-> 0]

Abs(x) == IF x < 0 THEN -x ELSE x

Max(a, b) == IF a >= b THEN a ELSE b

Min(a, b) == IF a <= b THEN a ELSE b

\* (a - b).length() for vectors on the x axis.
Distance(a, b) == Abs(a - b)

----------------------------------------------------------------------------
(* formation.rs: the cadence gate and the star and black-hole rules. *)

\* The gate with "<=" for "<".
GateClosed_OffByOne(tick, last_run, interval) == tick - last_run <= interval

\* The early return of every rule: sim_state.tick - last_run < interval.
GateClosed(tick, last_run, interval) == tick - last_run < interval

\* An avoidance radius of zero: no star is ever near enough.
StarAvoidanceRadius_Zero == Spacing * 0

\* spawn_stars_from_density: avoidance_radius = universe.spacing * 0.8.
StarAvoidanceRadius == (Spacing * 8) \div 10

\* spawn_black_holes_from_density: avoidance_radius = universe.spacing * 0.9.
BlackHoleAvoidanceRadius == (Spacing * 9) \div 10

\* existing.iter().any(|t| (t.translation - position).length() < radius)
AlreadyPresent(existing, position, radius) ==
    \E k \in 1..Len(existing) :
        Distance(existing[k].translation, position) < radius

\* The Star spawned at a cell of density d: radius = clamp(d * 0.08, 0.05,
\* 0.6), temperature = 4000 + d * 3000, luminosity = d * 2.
NewStar(position, d) ==
    [ translation |-> position,
      mass        |-> d,
      radius      |-> Clamp((d * 8) \div 100, (5 * Scale) \div 100,
                            (6 * Scale) \div 10),
      temperature |-> 4000 * Scale + d * 3000,
      luminosity  |-> d * 2 ]

\* The loop of spawn_stars_from_density from cell i on.  existing is the star
\* query of the pass: the spawn commands are applied after the system, so it
\* does not hold the stars this pass creates.
RECURSIVE StarsSpawned(_, _, _, _)
StarsSpawned(i, positions, fields, existing) ==
    IF i \notin Cells
    THEN <<>>
    ELSE LET skip ==
                 \/ fields[i].local_density < settings.star_density_threshold
                 \/ AlreadyPresent(existing, positions[i], StarAvoidanceRadius)
         IN  (IF skip THEN <<>>
                      ELSE <<NewStar(positions[i], fields[i].local_density)>>)
             \o StarsSpawned(i + 1, positions, fields, existing)

\* The BlackHole spawned at a cell: mass = d * 4, radius = clamp(mass * 0.05,
\* 0.2, 1.5), spin = |curvature_proxy|.
NewBlackHole(position, d, curvature) ==
    [ translation |-> position,
      mass        |-> d * 4,
      radius      |-> Clamp((d * 4) \div 20, (2 * Scale) \div 10,
                            (15 * Scale) \div 10),
      spin        |-> Abs(curvature) ]

\* The loop of spawn_black_holes_from_density from cell i on.
RECURSIVE BlackHolesSpawned(_, _, _, _)
BlackHolesSpawned(i, positions, fields, existing) ==
    IF i \notin Cells
    THEN <<>>
    ELSE LET skip ==
                 \/ fields[i].local_density
                       < settings.black_hole_density_threshold
                 \/ Abs(fields[i].curvature_proxy)
                       < settings.black_hole_curvature_threshold
                 \/ AlreadyPresent(existing, positions[i],
                                   BlackHoleAvoidanceRadius)
         IN  (IF skip THEN <<>>
                      ELSE <<NewBlackHole(positions[i],
                                          fields[i].local_density,
                                          fields[i].curvature_proxy)>>)
             \o BlackHolesSpawned(i + 1, positions, fields, existing)

----------------------------------------------------------------------------
(* formation.rs: identify_galaxies. *)

\* key = grid_coords / region_size, with region_size = settings.region_size.max(1).
RegionKey(i) ==
    LET region_size == Max(settings.region_size, 1) IN
    << GridCoords(i)[1] \div region_size,
       GridCoords(i)[2] \div region_size,
       GridCoords(i)[3] \div region_size >>

\* The first loop of identify_galaxies from cell i on: regions maps a key to
\* the accumulated (mass, weighted position) of its cells at or above
\* galaxy_density_threshold.
RECURSIVE BuildRegions(_, _, _, _)
BuildRegions(i, positions, fields, regions) ==
    IF i \notin Cells
    THEN regions
    ELSE IF fields[i].local_density < settings.galaxy_density_threshold
    THEN BuildRegions(i + 1, positions, fields, regions)
    ELSE LET key   == RegionKey(i)
             entry == IF key \in DOMAIN regions
                      THEN regions[key]
                      ELSE [mass |-> 0, weighted_pos |-> 0]
             added == [mass |-> entry.mass + fields[i].local_density,
                       weighted_pos |-> entry.weighted_pos
                           + positions[i] * fields[i].local_density]
         IN  BuildRegions(i + 1, positions, fields,
                 [k \in DOMAIN regions \cup {key} |->
                     IF k = key THEN added ELSE regions[k]])

EmptyRegions == [k \in {} |-> 0]

\* A lookup that leaves the region in the map.
RemoveRegion_KeepsKey(regions, key) == regions

\* regions.remove(key)
RemoveRegion(regions, key) == [k \in DOMAIN regions \ {key} |-> regions[k]]

\* center = weighted_pos / mass.max(1e-3)
RegionCenter(entry) == entry.weighted_pos \div Max(entry.mass, 1)

\* A radius with no lower bound.
GalaxyRadius_NoFloor(mass) == Clamp(mass \div 20, 0, Spacing * 8)

\* radius = (mass * 0.05).clamp(spacing, spacing * 8.0)
GalaxyRadius(mass) == Clamp(mass \div 20, Spacing, Spacing * 8)

\* A galaxy as a fade leaves it: its radius is no longer the clamp of its
\* mass.
HasFaded(galaxy) ==
    galaxy.radius # Clamp(galaxy.total_mass \div 20, Spacing, Spacing * 8)

\* stars.iter().filter(|t| (t.translation - center).length() < radius).count()
StarsWithin(star_list, center, radius) ==
    Cardinality({k \in 1..Len(star_list) :
                    Distance(star_list[k].translation, center) < radius})

\* A galaxy whose region is still there: recomputed from the region.
UpdatedGalaxy(galaxy, entry, star_list) ==
    [galaxy EXCEPT
        !.total_mass = entry.mass,
        !.center     = RegionCenter(entry),
        !.radius     = GalaxyRadius(entry.mass),
        !.num_stars  = StarsWithin(star_list, RegionCenter(entry),
                                   GalaxyRadius(entry.mass))]

\* A fade that shrinks the mass and leaves the radius.
FadedGalaxy_MassOnly(galaxy) ==
    [galaxy EXCEPT !.total_mass = (galaxy.total_mass * 9) \div 10]

\* A galaxy whose region is gone: total_mass *= 0.9 and radius *= 0.9.
FadedGalaxy(galaxy) ==
    [galaxy EXCEPT
        !.total_mass = (galaxy.total_mass * 9) \div 10,
        !.radius     = (galaxy.radius * 9) \div 10]

\* The second loop, despawning a galaxy whose region is gone.
RECURSIVE RefreshExisting_DespawnsFaded(_, _, _, _)
RefreshExisting_DespawnsFaded(i, galaxy_list, regions, star_list) ==
    IF i > Len(galaxy_list)
    THEN [galaxies |-> galaxy_list, regions |-> regions]
    ELSE LET key == galaxy_list[i].region_key IN
         IF key \in DOMAIN regions
         THEN RefreshExisting_DespawnsFaded(i + 1,
                  [galaxy_list EXCEPT
                      ![i] = UpdatedGalaxy(galaxy_list[i], regions[key],
                                           star_list)],
                  RemoveRegion(regions, key), star_list)
         ELSE RefreshExisting_DespawnsFaded(i,
                  SubSeq(galaxy_list, 1, i - 1)
                      \o SubSeq(galaxy_list, i + 1, Len(galaxy_list)),
                  regions, star_list)

\* The second loop, matching no galaxy that has faded.
RECURSIVE RefreshExisting_SkipsFaded(_, _, _, _)
RefreshExisting_SkipsFaded(i, galaxy_list, regions, star_list) ==
    IF i > Len(galaxy_list)
    THEN [galaxies |-> galaxy_list, regions |-> regions]
    ELSE LET key == galaxy_list[i].region_key IN
         IF key \in DOMAIN regions /\ ~HasFaded(galaxy_list[i])
         THEN RefreshExisting_SkipsFaded(i + 1,
                  [galaxy_list EXCEPT
                      ![i] = UpdatedGalaxy(galaxy_list[i], regions[key],
                                           star_list)],
                  RemoveRegion(regions, key), star_list)
         ELSE RefreshExisting_SkipsFaded(i + 1,
                  [galaxy_list EXCEPT ![i] = FadedGalaxy(galaxy_list[i])],
                  regions, star_list)

\* The second loop of identify_galaxies from galaxy i on: the galaxies after
\* the loop and the regions no galaxy has taken.
RECURSIVE RefreshExisting(_, _, _, _)
RefreshExisting(i, galaxy_list, regions, star_list) ==
    IF i > Len(galaxy_list)
    THEN [galaxies |-> galaxy_list, regions |-> regions]
    ELSE LET key == galaxy_list[i].region_key IN
         IF key \in DOMAIN regions
         THEN RefreshExisting(i + 1,
                  [galaxy_list EXCEPT
                      ![i] = UpdatedGalaxy(galaxy_list[i], regions[key],
                                           star_list)],
                  RemoveRegion(regions, key), star_list)
         ELSE RefreshExisting(i + 1,
                  [galaxy_list EXCEPT ![i] = FadedGalaxy(galaxy_list[i])],
                  regions, star_list)

\* The orders in which regions.into_iter() may yield the keys of a HashMap.
IterationOrders(keys) ==
    {order \in [1..Cardinality(keys) -> keys] :
        \A a, b \in DOMAIN order : a # b => order[a] # order[b]}

\* A counter that hands out its value and stays where it is.
GalaxyIdCounter_next_NoIncrement(next_id) ==
    [id |-> next_id, next_id |-> next_id]

\* GalaxyIdCounter::next: the id handed out and the counter after the call.
GalaxyIdCounter_next(next_id) == [id |-> next_id, next_id |-> next_id + 1]

\* The skip test with "<=" for "<": a region needs more than the bound.
BelowSpawnMass_Inclusive(mass) == mass <= settings.galaxy_density_threshold * 3

\* The skip test of the third loop: mass < galaxy_density_threshold * 3.0.
BelowSpawnMass(mass) == mass < settings.galaxy_density_threshold * 3

\* The third loop of identify_galaxies over the remaining regions, from the
\* i-th key of the iteration order on: the galaxies spawned and the id counter
\* after GalaxyIdCounter::next.
RECURSIVE SpawnGalaxies(_, _, _, _, _)
SpawnGalaxies(i, order, regions, star_list, next_id) ==
    IF i > Len(order)
    THEN [spawned |-> <<>>, next_id |-> next_id]
    ELSE LET entry == regions[order[i]] IN
         IF BelowSpawnMass(entry.mass)
         THEN SpawnGalaxies(i + 1, order, regions, star_list, next_id)
         ELSE LET issued == GalaxyIdCounter_next(next_id)
                  rest == SpawnGalaxies(i + 1, order, regions, star_list,
                                        issued.next_id)
                  galaxy ==
                      [ id         |-> issued.id,
                        total_mass |-> entry.mass,
                        radius     |-> GalaxyRadius(entry.mass),
                        num_stars  |-> StarsWithin(star_list,
                                           RegionCenter(entry),
                                           GalaxyRadius(entry.mass)),
                        center     |-> RegionCenter(entry),
                        region_key |-> order[i] ]
              IN  [spawned |-> <<galaxy>> \o rest.spawned,
                   next_id |-> rest.next_id]

----------------------------------------------------------------------------
(* Fixed-point arithmetic and Vec3 for the physics stage.  A Vec3 is a      *)
(* triple.  Positions, velocities, masses and the gravity parameters are    *)
(* counted in thousandths; an acceleration is counted in millionths, the    *)
(* whole product of two thousandths, so that force accumulation divides     *)
(* only where the program divides.                                          *)

\* a / b rounded toward zero.
Quot(a, b) ==
    IF (a >= 0) = (b > 0) THEN Abs(a) \div Abs(b) ELSE -(Abs(a) \div Abs(b))

\* a * b and a / b of two numbers in thousandths, in thousandths.
Mul(a, b) == Quot(a * b, Scale)

Div(a, b) == Quot(a * Scale, b)

\* Largest root whose square is a 32-bit integer.
MaxRoot == 46340

RECURSIVE ISqrtBetween(_, _, _)
ISqrtBetween(n, lo, hi) ==
    IF lo >= hi
    THEN lo
    ELSE LET mid == (lo + hi + 1) \div 2 IN
         IF mid * mid <= n
         THEN ISqrtBetween(n, mid, hi)
         ELSE ISqrtBetween(n, lo, mid - 1)

\* f32::sqrt of a number in thousandths, rounded down to thousandths.
Sqrt(x) == ISqrtBetween(x * Scale, 0, MaxRoot)

\* exp(x) for x >= 0 in thousandths: the Taylor series, summed until its
\* terms vanish.
RECURSIVE ExpSeries(_, _, _)
ExpSeries(x, k, term) ==
    IF term = 0
    THEN 0
    ELSE term + ExpSeries(x, k + 1, Quot(Mul(term, x), k + 1))

\* f32::exp of -x for x >= 0.
ExpNeg(x) == Div(Scale, ExpSeries(x, 0, Scale))

Zero3 == <<0, 0, 0>>

VAdd(a, b) == <<a[1] + b[1], a[2] + b[2], a[3] + b[3]>>

VSub(a, b) == <<a[1] - b[1], a[2] - b[2], a[3] - b[3]>>

VNeg(a) == <<-a[1], -a[2], -a[3]>>

\* v * k with the product kept whole (thousandths * thousandths: millionths;
\* integer * thousandths: thousandths).
VTimes(v, k) == <<v[1] * k, v[2] * k, v[3] * k>>

\* v * k of a Vec3 and a scalar in thousandths, in the unit of v.
VMul(v, k) == <<Mul(v[1], k), Mul(v[2], k), Mul(v[3], k)>>

\* v / k component by component, rounded toward zero.
VQuot(v, k) == <<Quot(v[1], k), Quot(v[2], k), Quot(v[3], k)>>

\* Vec3::length_squared and Vec3::length of a Vec3 in thousandths.
length_squared(v) == Mul(v[1], v[1]) + Mul(v[2], v[2]) + Mul(v[3], v[3])

length(v) == Sqrt(length_squared(v))

\* Vec3::normalize_or_zero.
normalize_or_zero(v) ==
    IF length(v) = 0 THEN Zero3
    ELSE <<Div(v[1], length(v)), Div(v[2], length(v)), Div(v[3], length(v))>>

\* Vec3::length of an acceleration in millionths, in tenths: the unit in
\* which the square of every acceleration a Vec3 of the model can hold is a
\* 32-bit integer.
AccelLength(a) ==
    LET tenths == VQuot(a, Scale * (Scale \div 10)) IN
    ISqrtBetween(tenths[1] * tenths[1] + tenths[2] * tenths[2]
                    + tenths[3] * tenths[3], 0, MaxRoot)

\* A bound in thousandths, in tenths.
InTenths(max) == Quot(max, Scale \div 10)

\* A clamp of each component to [-max, max].
clamp_length_max_PerAxis(a, max) ==
    [c \in 1..3 |-> Clamp(a[c], -(max * Scale), max * Scale)]

\* Vec3::clamp_length_max of an acceleration in millionths: the vector times
\* max / length where its length exceeds max.
clamp_length_max(a, max) ==
    LET len == AccelLength(a) IN
    IF len > InTenths(max)
    THEN VTimes(VQuot(a, Scale), Div(InTenths(max), len))
    ELSE a

RECURSIVE SumUpTo(_, _)
SumUpTo(f, n) == IF n = 0 THEN 0 ELSE f[n] + SumUpTo(f, n - 1)

RECURSIVE VSumUpTo(_, _)
VSumUpTo(f, n) == IF n = 0 THEN Zero3 ELSE VAdd(f[n], VSumUpTo(f, n - 1))

\* Option<f64>.
None == [some |-> FALSE, value |-> 0]

Some(x) == [some |-> TRUE, value |-> x]

\* Seconds per unit of SimulationState.dt, inverted: dt counts tenths of
\* 1/60 s.
DtDenominator == 60 * DefaultDt

----------------------------------------------------------------------------
(* gravity.rs and gravity_relational.rs: the parameters, the two solvers    *)
(* and the integrator.                                                      *)

\* GravityParams::default.
DefaultGravityParams ==
    [ g_effective      |-> (6 * Scale) \div 10,
      softening_length |-> (25 * Scale) \div 100,
      damping          |-> Scale \div 100,
      max_acceleration |-> 120 * Scale,
      enabled          |-> TRUE,
      mode             |-> "RelationalLattice" ]

\* SimulationEnergy::default.
DefaultSimulationEnergy ==
    [ kinetic        |-> 0,
      potential      |-> 0,
      total          |-> 0,
      initial_total  |-> None,
      relative_drift |-> None ]

NEIGHBOR_OFFSETS ==
    << <<1, 0, 0>>, <<-1, 0, 0>>, <<0, 1, 0>>, <<0, -1, 0>>, <<0, 0, 1>>,
       <<0, 0, -1>> >>

\* The weight RelationalKernel::new gives an offset: direction * inv_r3 with
\* inv_r3 = distance_sq.powf(-1.5).  The floor 1e-6 of distance_sq is the
\* smallest positive number of the model.
KernelWeight(offset, spacing) ==
    LET world_offset == VTimes(offset, spacing)
        distance_sq  == Max(length_squared(world_offset), 1)
        inv_r3       == Div(Scale, Mul(distance_sq, Sqrt(distance_sq)))
    IN  VMul(normalize_or_zero(world_offset), inv_r3)

\* RelationalKernel::new.
RelationalKernel_new(spacing) ==
    [ present |-> TRUE,
      offsets |-> NEIGHBOR_OFFSETS,
      weights |-> [k \in 1..Len(NEIGHBOR_OFFSETS) |->
                      KernelWeight(NEIGHBOR_OFFSETS[k], spacing)] ]

\* No RelationalKernel resource: kernel is None in simulate_gravity_step.
NoKernel == [present |-> FALSE, offsets |-> <<>>, weights |-> <<>>]

\* An index that strides x by dims.y alone.
idx_WrongStride(coord, dims) == coord[1] * dims[2] + coord[2] * dims[3] + coord[3]

\* The closure idx of apply_relational_gravity.
idx(coord, dims) ==
    coord[1] * dims[2] * dims[3] + coord[2] * dims[3] + coord[3]

\* mass_field after the writes of cell_data[k..]: a table of volume entries,
\* all 0.0 at first.
RECURSIVE MassFieldFrom(_, _, _, _)
MassFieldFrom(k, cell_data, dims, mass_field) ==
    IF k > Len(cell_data)
    THEN mass_field
    ELSE MassFieldFrom(k + 1, cell_data, dims,
             [mass_field EXCEPT
                 ![idx(cell_data[k].grid_coords, dims)] = cell_data[k].mass])

MassField(cell_data, dims) ==
    MassFieldFrom(1, cell_data, dims,
        [n \in 0..(dims[1] * dims[2] * dims[3] - 1) |-> 0])

\* The bounds test on a neighbor: FALSE where the loop continues.
InBounds(neighbor, dims) ==
    /\ neighbor[1] >= 0 /\ neighbor[2] >= 0 /\ neighbor[3] >= 0
    /\ neighbor[1] < dims[1] /\ neighbor[2] < dims[2] /\ neighbor[3] < dims[3]

\* softened_gain = 1.0 / (1.0 + params.softening_length.max(0.0))
SoftenedGain(p) == Div(Scale, Scale + Max(p.softening_length, 0))

\* A neighbor beyond the lattice read as the cell at the edge nearest to it.
NeighborContribution_ClampsToEdge(neighbor, weight, p, dims, mass_field) ==
    LET edge == [a \in 1..3 |-> Clamp(neighbor[a], 0, dims[a] - 1)] IN
    VTimes(weight,
           Mul(Mul(p.g_effective, mass_field[idx(edge, dims)]),
               SoftenedGain(p)))

\* One iteration of the loop over the kernel: what the neighbor adds to
\* accel, nothing where the loop continues.
NeighborContribution(neighbor, weight, p, dims, mass_field) ==
    IF ~InBounds(neighbor, dims)
    THEN Zero3
    ELSE VTimes(weight,
                Mul(Mul(p.g_effective, mass_field[idx(neighbor, dims)]),
                    SoftenedGain(p)))

\* The acceleration apply_relational_gravity computes for a cell at
\* grid_coords from the mass table.
RelationalAccel(grid_coords, p, dims, k, mass_field) ==
    VSumUpTo([o \in 1..Len(k.offsets) |->
                 NeighborContribution(VAdd(grid_coords, k.offsets[o]),
                                      k.weights[o], p, dims, mass_field)],
             Len(k.offsets))

\* apply_relational_gravity: every cell's acceleration is assigned from the
\* table built of cell_data.
apply_relational_gravity(p, u, k, cell_data, b) ==
    LET mass_field == MassField(cell_data, u.grid_dimensions) IN
    [i \in DOMAIN b |->
        [b[i] EXCEPT !.acceleration =
            RelationalAccel(b[i].grid_coords, p, u.grid_dimensions, k,
                            mass_field)]]

\* A pair whose two accelerations are both the force over the first mass.
PairAccel_SameMass(a, b, p) ==
    LET softening2   == Mul(p.softening_length, p.softening_length)
        displacement == VSub(b.position, a.position)
        dist2        == length_squared(displacement) + softening2
        inv_dist     == Div(Scale, Sqrt(dist2))
        inv_dist3    == Mul(Mul(inv_dist, inv_dist), inv_dist)
        mass_product == Mul(a.mass, b.mass)
        force_mag    == Mul(Mul(p.g_effective, mass_product), inv_dist3)
        direction    == VMul(displacement, inv_dist)
    IN  IF dist2 <= 0 \/ mass_product <= 0
        THEN [accel_a |-> Zero3, accel_b |-> Zero3]
        ELSE [accel_a |-> VTimes(direction, Div(force_mag, a.mass)),
              accel_b |-> VTimes(direction, Div(force_mag, a.mass))]

\* One iteration of the NaiveNBody loop on the pair (a, b): accel_a is added
\* to a's acceleration and accel_b subtracted from b's; both are zero where
\* the loop continues.
PairAccel(a, b, p) ==
    LET softening2   == Mul(p.softening_length, p.softening_length)
        displacement == VSub(b.position, a.position)
        dist2        == length_squared(displacement) + softening2
        inv_dist     == Div(Scale, Sqrt(dist2))
        inv_dist3    == Mul(Mul(inv_dist, inv_dist), inv_dist)
        mass_product == Mul(a.mass, b.mass)
        force_mag    == Mul(Mul(p.g_effective, mass_product), inv_dist3)
        direction    == VMul(displacement, inv_dist)
    IN  IF dist2 <= 0 \/ mass_product <= 0
        THEN [accel_a |-> Zero3, accel_b |-> Zero3]
        ELSE [accel_a |-> VTimes(direction, Div(force_mag, a.mass)),
              accel_b |-> VTimes(direction, Div(force_mag, b.mass))]

\* The NaiveNBody loop over iter_combinations_mut: body i gains accel_a of
\* every pair (i, j) with i < j and loses accel_b of every pair (j, i) with
\* j < i.
NaiveNBody(p, b) ==
    [i \in DOMAIN b |->
        [b[i] EXCEPT !.acceleration =
            VAdd(b[i].acceleration,
                 VSumUpTo([j \in DOMAIN b |->
                              IF i < j THEN PairAccel(b[i], b[j], p).accel_a
                              ELSE IF j < i
                              THEN VNeg(PairAccel(b[j], b[i], p).accel_b)
                              ELSE Zero3],
                          Len(b)))]]

\* A step that keeps the accelerations of the step before.
ResetAccelerations_Keeps(b) == b

\* The first loop of a fixed step: acceleration = Vec3::ZERO.
ResetAccelerations(b) ==
    [i \in DOMAIN b |-> [b[i] EXCEPT !.acceleration = Zero3]]

\* Force accumulation: skipped when gravity is disabled, and in
\* RelationalLattice mode when there is no kernel.
AccumulateForces(p, u, k, b) ==
    IF ~p.enabled
    THEN b
    ELSE IF p.mode = "NaiveNBody"
    THEN NaiveNBody(p, b)
    ELSE IF k.present
    THEN apply_relational_gravity(p, u, k,
             [i \in DOMAIN b |->
                 [grid_coords |-> b[i].grid_coords, mass |-> b[i].mass]],
             b)
    ELSE b

\* acceleration.length_squared() > max_acceleration * max_acceleration: the
\* program compares squared lengths; lengths are compared here, which is the
\* same test.
ExceedsMax(acceleration, p) ==
    AccelLength(acceleration) > InTenths(p.max_acceleration)

\* The integrator (semi-implicit Euler) on one body.
Integrate(body, p, dt) ==
    LET accel == IF ExceedsMax(body.acceleration, p)
                 THEN clamp_length_max(body.acceleration, p.max_acceleration)
                 ELSE body.acceleration
        accelerated == VAdd(body.velocity,
                            VQuot(VTimes(accel, dt), DtDenominator * Scale))
        velocity == VMul(accelerated,
                         Scale - Quot(p.damping * dt, DtDenominator))
    IN  [body EXCEPT
            !.acceleration = accel,
            !.velocity     = velocity,
            !.position     = VAdd(body.position,
                                  VQuot(VTimes(velocity, dt), DtDenominator))]

\* One iteration of the loop "for _ in 0..steps" of simulate_gravity_step.
FixedStep(p, u, k, b, dt) ==
    LET accumulated == AccumulateForces(p, u, k, ResetAccelerations(b)) IN
    [i \in DOMAIN b |-> Integrate(accumulated[i], p, dt)]

RECURSIVE StepsApplied(_, _, _, _, _, _)
StepsApplied(steps, p, u, k, b, dt) ==
    IF steps = 0
    THEN b
    ELSE StepsApplied(steps - 1, p, u, k, FixedStep(p, u, k, b, dt), dt)

\* The kinetic energy: the sum of 0.5 * mass * velocity.length_squared().
Kinetic(b) ==
    SumUpTo([i \in DOMAIN b |->
                Mul(Mul(Scale \div 2, b[i].mass),
                    length_squared(b[i].velocity))],
            Len(b))

\* A term that falls with the square of the distance.
PotentialTerm_InverseSquare(a, b, p) ==
    LET displacement == VSub(b.position, a.position)
        distance == Sqrt(length_squared(displacement)
                         + Mul(p.softening_length, p.softening_length))
    IN  IF distance > 0
        THEN -Div(Mul(Mul(p.g_effective, a.mass), b.mass),
                  Mul(distance, distance))
        ELSE 0

\* The term of the pair (a, b) in the potential energy.
PotentialTerm(a, b, p) ==
    LET displacement == VSub(b.position, a.position)
        distance == Sqrt(length_squared(displacement)
                         + Mul(p.softening_length, p.softening_length))
    IN  IF distance > 0
        THEN -Div(Mul(Mul(p.g_effective, a.mass), b.mass), distance)
        ELSE 0

Potential(b, p) ==
    SumUpTo([i \in DOMAIN b |->
                SumUpTo([j \in DOMAIN b |->
                            IF i < j THEN PotentialTerm(b[i], b[j], p) ELSE 0],
                        Len(b))],
            Len(b))

\* The threshold 1e-9 of compute_energy_metrics: below the resolution of the
\* model, where every non-zero energy exceeds it.
EnergyEpsilon == 0

\* initial_total taken anew on every pass.
CapturedInitial_EveryPass(initial_total, total) ==
    IF Abs(total) > EnergyEpsilon THEN Some(total) ELSE initial_total

\* initial_total after a pass: captured if it is None and |total| > 1e-9.
CapturedInitial(initial_total, total) ==
    IF ~initial_total.some /\ Abs(total) > EnergyEpsilon
    THEN Some(total)
    ELSE initial_total

\* relative_drift after a pass.
RelativeDrift(e, initial_total, total) ==
    IF initial_total.some /\ Abs(initial_total.value) > EnergyEpsilon
    THEN Some(Div(total - initial_total.value, initial_total.value))
    ELSE e.relative_drift

\* The body of compute_energy_metrics.
EnergyMetrics(p, e, b) ==
    LET kinetic   == Kinetic(b)
        potential == Potential(b, p)
        total     == kinetic + potential
        initial   == CapturedInitial(e.initial_total, total)
    IN  [ kinetic        |-> kinetic,
          potential      |-> potential,
          total          |-> total,
          initial_total  |-> initial,
          relative_drift |-> RelativeDrift(e, initial, total) ]

----------------------------------------------------------------------------
(* universe.rs: compute_derived_fields with its metrics, and events.rs: the *)
(* report log.                                                              *)

\* FieldMetrics::default: 32 samples of 0.0 and room for 64.
InitialHistoryLen == 32

DefaultMaxHistory == 64

DefaultFieldMetrics ==
    [ avg_density     |-> 0,
      min_density     |-> 0,
      max_density     |-> 0,
      avg_curvature   |-> 0,
      density_history |-> [k \in 1..InitialHistoryLen |-> 0],
      max_history     |-> DefaultMaxHistory ]

\* smoothing_inv = 1.0 / (smoothing_radius * 0.5).max(0.0001), with
\* smoothing_radius = spacing * 2.5.
SmoothingInv(spacing) ==
    Div(Scale, Max(Mul(Mul(spacing, (25 * Scale) \div 10), Scale \div 2), 1))

\* weight = (-0.5 * (r * smoothing_inv).powi(2)).exp()
Weight(r, smoothing_inv) ==
    ExpNeg(Mul(Scale \div 2, Mul(Mul(r, smoothing_inv), Mul(r, smoothing_inv))))

\* The DerivedFields the pass writes for body i.
DerivedOf(i, b, smoothing_inv) ==
    LET r == [j \in DOMAIN b |-> length(VSub(b[j].position, b[i].position))]
        weight == [j \in DOMAIN b |-> Weight(r[j], smoothing_inv)]
        density == SumUpTo([j \in DOMAIN b |-> Mul(b[j].mass, weight[j])],
                           Len(b))
        ub_weighted ==
            SumUpTo([j \in DOMAIN b |->
                        IF r[j] > 0 THEN Mul(b[j].ub_geom_lock, weight[j])
                        ELSE 0],
                    Len(b))
        ub_weight_sum ==
            SumUpTo([j \in DOMAIN b |-> IF r[j] > 0 THEN weight[j] ELSE 0],
                    Len(b))
    IN  [ local_density   |-> Max(density, 0),
          curvature_proxy |->
              IF ub_weight_sum > 0
              THEN b[i].ub_geom_lock - Div(ub_weighted, ub_weight_sum)
              ELSE 0 ]

\* An eviction that drops the newest sample.
pop_front_DropsBack(history) == SubSeq(history, 1, Len(history) - 1)

\* VecDeque::pop_front.
pop_front(history) == Tail(history)

\* while density_history.len() > max_history { pop_front() }
RECURSIVE TrimHistory(_, _)
TrimHistory(history, max_history) ==
    IF Len(history) > max_history
    THEN TrimHistory(pop_front(history), max_history)
    ELSE history

\* The metrics after a pass that wrote fields for total_cells > 0 cells.
UpdatedMetrics(m, fields) ==
    LET n == Len(fields)
        density_sum ==
            SumUpTo([i \in DOMAIN fields |-> fields[i].local_density], n)
        curvature_sum ==
            SumUpTo([i \in DOMAIN fields |-> Abs(fields[i].curvature_proxy)],
                    n)
        densities == {fields[i].local_density : i \in DOMAIN fields}
        avg_density == Quot(density_sum, n)
    IN  [m EXCEPT
            !.avg_density     = avg_density,
            !.min_density     = CHOOSE d \in densities :
                                    \A e \in densities : d <= e,
            !.max_density     = CHOOSE d \in densities :
                                    \A e \in densities : d >= e,
            !.avg_curvature   = Quot(curvature_sum, n),
            !.density_history =
                TrimHistory(Append(m.density_history, avg_density),
                            m.max_history)]

\* AstroReportLog::default, as init_resource makes it.
DefaultAstroReportLog == [reports |-> <<>>, max_reports |-> 0]

\* The capacity push gives a log whose max_reports is 0.
DefaultMaxReports == 128

\* A drain that removes the newest reports.
drain_FromBack(reports, overflow) ==
    SubSeq(reports, 1, Len(reports) - overflow)

\* reports.drain(0..overflow)
drain(reports, overflow) == SubSeq(reports, overflow + 1, Len(reports))

\* AstroReportLog::push.
push(log, report) ==
    LET max_reports == IF log.max_reports = 0 THEN DefaultMaxReports
                       ELSE log.max_reports
        pushed == Append(log.reports, report)
    IN  [ max_reports |-> max_reports,
          reports |-> IF Len(pushed) > max_reports
                      THEN drain(pushed, Len(pushed) - max_reports)
                      ELSE pushed ]

----------------------------------------------------------------------------
(* The universe at startup, and the states of it the checks start from.     *)

\* PruUniverse::new: the fields the modelled systems read.
PruUniverse_new(grid_dimensions, spacing) ==
    [grid_dimensions |-> grid_dimensions, spacing |-> spacing]

\* The grid coordinates of the k-th cell setup_universe spawns: x outermost,
\* z innermost.
CoordsOf(k, dims) ==
    << (k - 1) \div (dims[2] * dims[3]),
       ((k - 1) \div dims[3]) % dims[2],
       (k - 1) % dims[3] >>

\* position = grid_coords * spacing - center_offset, with center_offset =
\* (dims - 1) * 0.5 * spacing.
PositionOf(coords, u) ==
    << coords[1] * u.spacing
          - Quot((u.grid_dimensions[1] - 1) * u.spacing, 2),
       coords[2] * u.spacing
          - Quot((u.grid_dimensions[2] - 1) * u.spacing, 2),
       coords[3] * u.spacing
          - Quot((u.grid_dimensions[3] - 1) * u.spacing, 2) >>

\* The cells of a universe in spawn order, with the lock, mass, velocity and
\* acceleration the patterns give the k-th of them.
SetupBodies(u, lock, mass, velocity, acceleration) ==
    [k \in 1..(u.grid_dimensions[1] * u.grid_dimensions[2]
                  * u.grid_dimensions[3]) |->
        [ position     |-> PositionOf(CoordsOf(k, u.grid_dimensions), u),
          grid_coords  |-> CoordsOf(k, u.grid_dimensions),
          ub_geom_lock |-> lock[k],
          mass         |-> mass[k],
          velocity     |-> velocity[k],
          acceleration |-> acceleration[k] ]]

\* The masses a cell takes in the checks: PruDynamics::default has 1.0.
MassValues == {Scale \div 2, Scale}

\* ub_geom_lock of the k-th cell: the program draws it from [-1, 1).
LockPattern == [k \in 1..12 |-> (((k * 7) % 5) - 2) * ((4 * Scale) \div 10)]

UniformMass == [k \in 1..12 |-> Scale]

AlternatingMass == [k \in 1..12 |-> IF k % 2 = 1 THEN Scale \div 2 ELSE Scale]

HeavyCorner == [k \in 1..12 |-> IF k = 1 THEN Scale ELSE Scale \div 2]

AtRest == [k \in 1..12 |-> Zero3]

\* Velocities after some motion.
Drifting ==
    [k \in 1..12 |->
        << IF k % 2 = 1 THEN (6 * Scale) \div 10 ELSE -((6 * Scale) \div 10),
           0,
           IF k % 3 = 0 THEN (3 * Scale) \div 10 ELSE 0 >>]

\* The first body moves at 1.0 along x.
FirstMoving == [k \in 1..12 |-> IF k = 1 THEN <<Scale, 0, 0>> ELSE Zero3]

\* Accelerations left by an earlier step, in millionths.
LeftOver ==
    [k \in 1..12 |-> << (Scale * Scale) \div 4, 0, -((Scale * Scale) \div 8) >>]

\* Two cells at distance 2.
PairUniverse == PruUniverse_new(<<2, 1, 1>>, 2 * Scale)

\* Three cells in a row.
RowUniverse == PruUniverse_new(<<3, 1, 1>>, Spacing)

\* A lattice with interior axis neighbors and cells that are not neighbors.
LatticeUniverse == PruUniverse_new(<<3, 2, 2>>, Spacing)

\* Four cells that have come within 0.2 of each other.
CloseUniverse == PruUniverse_new(<<2, 2, 1>>, Scale \div 5)

\* Velocities of 3.0 along x and y, away from the centre of CloseUniverse.
Receding ==
    [k \in 1..12 |->
        LET coords == CoordsOf(k, <<2, 2, 1>>) IN
        << (2 * coords[1] - 1) * 3 * Scale, (2 * coords[2] - 1) * 3 * Scale,
           0 >>]

CloseSquare ==
    [ universe |-> CloseUniverse,
      bodies   |-> SetupBodies(CloseUniverse, LockPattern, AlternatingMass,
                               Receding, AtRest) ]

RestPair ==
    [ universe |-> PairUniverse,
      bodies   |-> SetupBodies(PairUniverse, LockPattern, UniformMass, AtRest,
                               AtRest) ]

MovingPair ==
    [ universe |-> PairUniverse,
      bodies   |-> SetupBodies(PairUniverse, LockPattern, UniformMass,
                               FirstMoving, AtRest) ]

\* Two cells that approach each other at 60.0 along x: they are 2 apart and
\* a step of 1/60 s moves each by 1.
HeadOn ==
    [k \in 1..12 |->
        IF k = 1 THEN <<60 * Scale, 0, 0>> ELSE <<-(60 * Scale), 0, 0>>]

HeadOnPair ==
    [ universe |-> PairUniverse,
      bodies   |-> SetupBodies(PairUniverse, LockPattern, UniformMass,
                               HeadOn, AtRest) ]

DriftingRow ==
    [ universe |-> RowUniverse,
      bodies   |-> SetupBodies(RowUniverse, LockPattern, AlternatingMass,
                               Drifting, AtRest) ]

BodyCases ==
    { RestPair,
      MovingPair,
      CloseSquare,
      [ universe |-> LatticeUniverse,
        bodies   |-> SetupBodies(LatticeUniverse, LockPattern, AlternatingMass,
                                 Drifting, AtRest) ],
      [ universe |-> LatticeUniverse,
        bodies   |-> SetupBodies(LatticeUniverse, LockPattern, HeavyCorner,
                                 AtRest, LeftOver) ],
      [ universe |-> LatticeUniverse,
        bodies   |-> SetupBodies(LatticeUniverse, LockPattern, UniformMass,
                                 Drifting, LeftOver) ] }

\* The parameters the gravity controls can have set.
ParamCases ==
    { DefaultGravityParams,
      [DefaultGravityParams EXCEPT !.mode = "NaiveNBody"],
      [DefaultGravityParams EXCEPT !.mode = "NaiveNBody",
                                   !.g_effective = Scale,
                                   !.softening_length = 0],
      [DefaultGravityParams EXCEPT !.enabled = FALSE,
                                   !.damping = (6 * Scale) \div 10],
      [DefaultGravityParams EXCEPT !.enabled = FALSE,
                                   !.mode = "NaiveNBody"] }

\* The resources and cells as run_app and setup_universe leave them; no
\* system inserts a RelationalKernel.
StartupResources ==
    /\ universe = PruUniverse_new(GridDimensions, Spacing)
    /\ bodies = SetupBodies(PruUniverse_new(GridDimensions, Spacing),
                            LockPattern, UniformMass, AtRest, AtRest)
    /\ params = DefaultGravityParams
    /\ kernel = NoKernel
    /\ energy = DefaultSimulationEnergy
    /\ metrics = DefaultFieldMetrics
    /\ report_log = DefaultAstroReportLog
    /\ calls = 0

----------------------------------------------------------------------------
(* The Update schedule.  Every system runs once per frame; systems with no  *)
(* ordering between them run in any order.                                  *)

SchedSystems ==
    {"keyboard_controls", "update_ui_buttons", "advance_simulation_time",
     "simulate_gravity_step"}

\* System sys of the frame's system set all runs now; the frame ends with the
\* last system.
RunSystem(sys, all, before) ==
    /\ sys \notin ran
    /\ before \subseteq ran
    /\ ran' = IF ran \cup {sys} = all THEN {} ELSE ran \cup {sys}

Keys == {"Space", "Period", "Minus", "Equal"}

\* keyboard_controls: the if-chain over the keys just pressed.
ApplyKeys(s, keys) ==
    LET s1 == IF "Space" \in keys THEN toggle(s) ELSE s
        s2 == IF "Period" \in keys THEN step_once(s1) ELSE s1
        s3 == IF "Minus" \in keys THEN adjust_speed(s2, -SpeedDelta) ELSE s2
        s4 == IF "Equal" \in keys THEN adjust_speed(s3, SpeedDelta) ELSE s3
    IN  s4

\* The keys of the gravity controls.
GravityKeys ==
    {"KeyG", "BracketLeft", "BracketRight", "Comma", "Slash", "Semicolon",
     "Quote"}

\* The steps of the gravity keys and buttons: 0.05, 0.002 and 0.02.
GravityStep == (5 * Scale) \div 100

DampingStep == (2 * Scale) \div 1000

SofteningStep == (2 * Scale) \div 100

\* A decrement of softening_length with no floor.
softening_decreased_NoFloor(x) == x - SofteningStep

\* (gravity.softening_length - 0.02).max(0.01)
softening_decreased(x) == Max(x - SofteningStep, Scale \div 100)

\* keyboard_controls: the if-chain over the gravity keys just pressed.
ApplyGravityKeys(p, keys) ==
    LET p1 == IF "KeyG" \in keys THEN [p EXCEPT !.enabled = ~p.enabled]
              ELSE p
        p2 == IF "BracketLeft" \in keys
              THEN [p1 EXCEPT !.g_effective =
                       Max(p1.g_effective - GravityStep, 0)]
              ELSE p1
        p3 == IF "BracketRight" \in keys
              THEN [p2 EXCEPT !.g_effective =
                       Clamp(p2.g_effective + GravityStep, 0, 5 * Scale)]
              ELSE p2
        p4 == IF "Comma" \in keys
              THEN [p3 EXCEPT !.damping = Max(p3.damping - DampingStep, 0)]
              ELSE p3
        p5 == IF "Slash" \in keys
              THEN [p4 EXCEPT !.damping = Min(p4.damping + DampingStep, Scale)]
              ELSE p4
        p6 == IF "Semicolon" \in keys
              THEN [p5 EXCEPT !.softening_length =
                       softening_decreased(p5.softening_length)]
              ELSE p5
        p7 == IF "Quote" \in keys
              THEN [p6 EXCEPT !.softening_length =
                       Min(p6.softening_length + SofteningStep, 2 * Scale)]
              ELSE p6
    IN  p7

\* keyboard_controls on a frame whose set of keys just pressed is drawn from
\* presses; a run follows the speed within speeds and the tick up to
\* max_tick.
keyboard_controls(all, presses, speeds, max_tick) ==
    /\ RunSystem("keyboard_controls", all, {})
    /\ \E keys \in presses :
          /\ ApplyKeys(sim_state, keys).tick <= max_tick
          /\ ApplyKeys(sim_state, keys).time_scale \in speeds
          /\ sim_state' = ApplyKeys(sim_state, keys)
          /\ params' = ApplyGravityKeys(params, keys)
          /\ ev' = [op |-> "keyboard_controls", input |-> keys]
    /\ UNCHANGED <<pending_steps, integration_steps>>
    /\ UNCHANGED astro_vars
    /\ UNCHANGED <<universe, bodies, kernel, energy, metrics, report_log,
                   calls>>
    /\ UNCHANGED agent_vars

Buttons == {"None", "Pause", "Slower", "Faster", "Step"}

\* update_ui_buttons: the else-if chain for a pressed button.
ApplyButton(s, b) ==
    CASE b = "Pause"  -> toggle(s)
      [] b = "Slower" -> adjust_speed(s, -SpeedDelta)
      [] b = "Faster" -> adjust_speed(s, SpeedDelta)
      [] b = "Step"   -> step_once(s)
      [] OTHER        -> s

\* The gravity toggle and the adjust buttons, each with the sign of its delta.
GravityButtons ==
    {"GravityToggle", "GravityDown", "GravityUp", "DampingDown", "DampingUp",
     "SofteningDown", "SofteningUp"}

\* update_ui_buttons: the else-if chain for a pressed gravity button.
ApplyGravityButton(p, b) ==
    CASE b = "GravityToggle" -> [p EXCEPT !.enabled = ~p.enabled]
      [] b = "GravityDown" ->
            [p EXCEPT !.g_effective =
                Clamp(p.g_effective - GravityStep, 0, 5 * Scale)]
      [] b = "GravityUp" ->
            [p EXCEPT !.g_effective =
                Clamp(p.g_effective + GravityStep, 0, 5 * Scale)]
      [] b = "DampingDown" ->
            [p EXCEPT !.damping = Clamp(p.damping - DampingStep, 0, Scale)]
      [] b = "DampingUp" ->
            [p EXCEPT !.damping = Clamp(p.damping + DampingStep, 0, Scale)]
      [] b = "SofteningDown" ->
            [p EXCEPT !.softening_length =
                Clamp(p.softening_length - SofteningStep, Scale \div 100,
                      3 * Scale)]
      [] b = "SofteningUp" ->
            [p EXCEPT !.softening_length =
                Clamp(p.softening_length + SofteningStep, Scale \div 100,
                      3 * Scale)]
      [] OTHER -> p

\* update_ui_buttons on a frame whose pressed button is drawn from buttons.
update_ui_buttons(all, buttons, speeds, max_tick) ==
    /\ RunSystem("update_ui_buttons", all, {})
    /\ \E b \in buttons :
          /\ ApplyButton(sim_state, b).tick <= max_tick
          /\ ApplyButton(sim_state, b).time_scale \in speeds
          /\ sim_state' = ApplyButton(sim_state, b)
          /\ params' = ApplyGravityButton(params, b)
          /\ ev' = [op |-> "update_ui_buttons", input |-> b]
    /\ UNCHANGED <<pending_steps, integration_steps>>
    /\ UNCHANGED astro_vars
    /\ UNCHANGED <<universe, bodies, kernel, energy, metrics, report_log,
                   calls>>
    /\ UNCHANGED agent_vars

\* The frame's wall-clock delta is drawn from deltas; a frame that would pass
\* max_tick is not taken.
advance_simulation_time(all, deltas, max_tick) ==
    /\ RunSystem("advance_simulation_time", all, {})
    /\ \E delta_seconds \in deltas :
          /\ AdvanceTime(sim_state, delta_seconds).tick <= max_tick
          /\ sim_state' = AdvanceTime(sim_state, delta_seconds)
          /\ ev' = [op |-> "advance_simulation_time", input |-> delta_seconds]
    /\ UNCHANGED <<pending_steps, integration_steps>>
    /\ UNCHANGED astro_vars
    /\ UNCHANGED phys_vars
    /\ UNCHANGED agent_vars

\* simulate_gravity_step: one force accumulation and integration per pending
\* step.
simulate_gravity_step(all) ==
    /\ RunSystem("simulate_gravity_step", all, {})
    /\ LET taken == take_pending_steps(pending_steps) IN
          /\ pending_steps' = taken.pending
          /\ integration_steps' = integration_steps + taken.steps
          /\ bodies' = StepsApplied(taken.steps, params, universe, kernel,
                                    bodies, sim_state.dt)
          /\ ev' = [op |-> "simulate_gravity_step", input |-> taken.steps]
    /\ UNCHANGED sim_state
    /\ UNCHANGED astro_vars
    /\ UNCHANGED <<universe, params, kernel, energy, metrics, report_log,
                   calls>>
    /\ UNCHANGED agent_vars

----------------------------------------------------------------------------
(* The systems of AstroPlugin, chained after compute_derived_fields. *)

AstroSystems ==
    {"advance_simulation_time", "compute_derived_fields",
     "spawn_stars_from_density", "spawn_black_holes_from_density",
     "identify_galaxies"}

\* compute_derived_fields writes local_density and curvature_proxy of every
\* cell.  The Gaussian sums are not evaluated here: the fields written are
\* drawn from cases.
compute_derived_fields(all, cases) ==
    /\ RunSystem("compute_derived_fields", all, {})
    /\ \E fields \in cases :
          /\ derived' = fields
          /\ ev' = [op |-> "compute_derived_fields", input |-> fields]
    /\ UNCHANGED <<cell_position, stars, black_holes, galaxies, schedule,
                   id_counter, bh_last_run>>
    /\ UNCHANGED sched_vars
    /\ UNCHANGED phys_vars
    /\ UNCHANGED agent_vars

spawn_stars_from_density(all) ==
    /\ RunSystem("spawn_stars_from_density", all, {"compute_derived_fields"})
    /\ IF GateClosed(sim_state.tick, schedule.last_star_tick,
                     settings.formation_interval)
       THEN /\ ev' = [op |-> "spawn_stars_from_density",
                      input |-> [executed |-> FALSE, spawned |-> 0]]
            /\ UNCHANGED <<stars, schedule>>
       ELSE LET spawned == StarsSpawned(1, cell_position, derived, stars) IN
            /\ schedule' = [schedule EXCEPT !.last_star_tick = sim_state.tick]
            /\ stars' = stars \o spawned
            /\ ev' = [op |-> "spawn_stars_from_density",
                      input |-> [executed |-> TRUE, spawned |-> Len(spawned)]]
    /\ UNCHANGED <<cell_position, derived, black_holes, galaxies, id_counter,
                   bh_last_run>>
    /\ UNCHANGED sched_vars
    /\ UNCHANGED phys_vars
    /\ UNCHANGED agent_vars

spawn_black_holes_from_density(all) ==
    /\ RunSystem("spawn_black_holes_from_density", all,
                 {"spawn_stars_from_density"})
    /\ IF GateClosed(sim_state.tick, schedule.last_star_tick,
                     settings.formation_interval)
       THEN /\ ev' = [op |-> "spawn_black_holes_from_density",
                      input |-> [executed |-> FALSE, spawned |-> 0]]
            /\ UNCHANGED <<black_holes, bh_last_run>>
       ELSE LET spawned ==
                    BlackHolesSpawned(1, cell_position, derived, black_holes)
            IN
            /\ black_holes' = black_holes \o spawned
            /\ bh_last_run' = sim_state.tick
            /\ ev' = [op |-> "spawn_black_holes_from_density",
                      input |-> [executed |-> TRUE, spawned |-> Len(spawned)]]
    /\ UNCHANGED <<cell_position, derived, stars, galaxies, schedule,
                   id_counter>>
    /\ UNCHANGED sched_vars
    /\ UNCHANGED phys_vars
    /\ UNCHANGED agent_vars

identify_galaxies(all) ==
    /\ RunSystem("identify_galaxies", all, {"spawn_black_holes_from_density"})
    /\ IF GateClosed(sim_state.tick, schedule.last_galaxy_tick,
                     settings.galaxy_refresh_interval)
       THEN /\ ev' = [op |-> "identify_galaxies",
                      input |-> [executed |-> FALSE, faded |-> {},
                                 revived |-> {}, spawned |-> 0]]
            /\ UNCHANGED <<galaxies, schedule, id_counter>>
       ELSE LET regions   == BuildRegions(1, cell_position, derived,
                                          EmptyRegions)
                refreshed == RefreshExisting(1, galaxies, regions, stars)
            IN
            \E order \in IterationOrders(DOMAIN refreshed.regions) :
               LET new == SpawnGalaxies(1, order, refreshed.regions, stars,
                                        id_counter)
               IN
               /\ schedule' =
                      [schedule EXCEPT !.last_galaxy_tick = sim_state.tick]
               /\ galaxies' = refreshed.galaxies \o new.spawned
               /\ id_counter' = new.next_id
               /\ ev' = [op |-> "identify_galaxies",
                         input |->
                            [executed |-> TRUE,
                             faded |->
                                {galaxies[k].id : k \in
                                    {j \in 1..Len(galaxies) :
                                        galaxies[j].region_key
                                            \notin DOMAIN regions}},
                             revived |->
                                {galaxies[k].id : k \in
                                    {j \in 1..Len(galaxies) :
                                        /\ galaxies[j].region_key
                                              \in DOMAIN regions
                                        /\ HasFaded(galaxies[j])}},
                             spawned |-> Len(new.spawned)]]
    /\ UNCHANGED <<cell_position, derived, stars, black_holes, bh_last_run>>
    /\ UNCHANGED sched_vars
    /\ UNCHANGED phys_vars
    /\ UNCHANGED agent_vars

\* AgentTelemetry::default with AstroAgent::new(galaxy.id, GalaxyAgent, ..).
NewAgent(galaxy) ==
    [ id               |-> galaxy.id,
      kind             |-> "GalaxyAgent",
      last_mass        |-> 0,
      last_star_count  |-> 0,
      last_black_holes |-> 0 ]

\* attach_agents_to_galaxies: every galaxy without an agent gets one.
\* Galaxies are never removed, so the galaxies without an agent are those
\* after the first Len(agents).
attach_agents_to_galaxies(all) ==
    /\ RunSystem("attach_agents_to_galaxies", all, {"identify_galaxies"})
    /\ agents' = agents \o
                    [k \in 1..(Len(galaxies) - Len(agents)) |->
                        NewAgent(galaxies[Len(agents) + k])]
    /\ ev' = [op |-> "attach_agents_to_galaxies",
              input |-> Len(galaxies) - Len(agents)]
    /\ UNCHANGED analysis_schedule
    /\ UNCHANGED sched_vars
    /\ UNCHANGED astro_vars
    /\ UNCHANGED phys_vars

\* The counts and differences analyze_agents takes of a galaxy against the
\* telemetry of its agent.
Sample(galaxy, agent) ==
    LET region_radius == Max(galaxy.radius, Scale \div 10)
        bh_count   == StarsWithin(black_holes, galaxy.center, region_radius)
        star_count == StarsWithin(stars, galaxy.center, region_radius)
    IN  [ total_mass  |-> galaxy.total_mass,
          bh_count    |-> bh_count,
          star_count  |-> star_count,
          mass_change |-> Abs(galaxy.total_mass - agent.last_mass),
          star_change |-> Abs(star_count - agent.last_star_count),
          bh_change   |-> Abs(bh_count - agent.last_black_holes) ]

\* The test without the black-hole count.
Changed_IgnoresBlackHoles(sample) ==
    \/ sample.mass_change * 20 > sample.total_mass
    \/ sample.star_change > 0

\* mass_change > galaxy.total_mass * 0.05 || star_change > 0 || bh_change > 0
Changed(sample) ==
    \/ sample.mass_change * 20 > sample.total_mass
    \/ sample.star_change > 0
    \/ sample.bh_change > 0

\* The log after the loop of analyze_agents from agent k on.
RECURSIVE ReportsPushed(_, _, _)
ReportsPushed(k, log, tick) ==
    IF k > Len(agents)
    THEN log
    ELSE ReportsPushed(k + 1,
             IF Changed(Sample(galaxies[k], agents[k]))
             THEN push(log, [tick |-> tick, agent_id |-> agents[k].id])
             ELSE log,
             tick)

\* analyze_agents: the interval is taken from the settings on the first run;
\* on a pass every agent reports if its sample has changed, and keeps the
\* sample.
analyze_agents(all) ==
    /\ RunSystem("analyze_agents", all, {"attach_agents_to_galaxies"})
    /\ LET agent_interval ==
               IF analysis_schedule.agent_interval = 0
               THEN Max(settings.galaxy_refresh_interval, 4)
               ELSE analysis_schedule.agent_interval
       IN  IF GateClosed(sim_state.tick, analysis_schedule.last_agent_tick,
                         agent_interval)
           THEN /\ analysis_schedule' =
                      [analysis_schedule EXCEPT
                          !.agent_interval = agent_interval]
                /\ ev' = [op |-> "analyze_agents",
                          input |-> [executed |-> FALSE, reported |-> {},
                                     quiet |-> {}]]
                /\ UNCHANGED <<agents, report_log>>
           ELSE /\ analysis_schedule' =
                      [last_agent_tick |-> sim_state.tick,
                       agent_interval  |-> agent_interval]
                /\ report_log' = ReportsPushed(1, report_log, sim_state.tick)
                /\ agents' =
                      [k \in DOMAIN agents |->
                          LET sample == Sample(galaxies[k], agents[k]) IN
                          [agents[k] EXCEPT
                              !.last_mass        = sample.total_mass,
                              !.last_star_count  = sample.star_count,
                              !.last_black_holes = sample.bh_count]]
                /\ ev' = [op |-> "analyze_agents",
                          input |->
                             [executed |-> TRUE,
                              reported |->
                                 {agents[k].id : k \in
                                     {j \in DOMAIN agents :
                                         Changed(Sample(galaxies[j],
                                                        agents[j]))}},
                              quiet |->
                                 {agents[k].id : k \in
                                     {j \in DOMAIN agents :
                                         LET sample == Sample(galaxies[j],
                                                              agents[j])
                                         IN  /\ ~Changed(sample)
                                             /\ sample.mass_change > 0}}]]
    /\ UNCHANGED sched_vars
    /\ UNCHANGED astro_vars
    /\ UNCHANGED <<universe, bodies, params, kernel, energy, metrics, calls>>

SchedInit ==
    /\ sim_state = DefaultSimulationState
    /\ pending_steps = 0
    /\ integration_steps = 0
    /\ ran = {}
    /\ ev = [op |-> "startup", input |-> 0]
    /\ cell_position = LatticePositions
    /\ derived = DefaultDerivedFields
    /\ stars = <<>>
    /\ black_holes = <<>>
    /\ galaxies = <<>>
    /\ schedule = DefaultFormationSchedule
    /\ id_counter = 0
    /\ bh_last_run = 0
    /\ agents = <<>>
    /\ analysis_schedule = DefaultAnalysisSchedule
    /\ StartupResources

SchedNext ==
    \/ keyboard_controls(SchedSystems, SUBSET Keys, MinSpeed..MaxSpeed,
                         MaxTick)
    \/ update_ui_buttons(SchedSystems, Buttons, MinSpeed..MaxSpeed, MaxTick)
    \/ advance_simulation_time(SchedSystems, 0..MaxDelta, MaxTick)
    \/ simulate_gravity_step(SchedSystems)

SchedSpec == SchedInit /\ [][SchedNext]_vars

----------------------------------------------------------------------------
(* Properties of the tick loop. *)

AdvanceStep == ev'.op = "advance_simulation_time"

ManualStep ==
    \/ ev'.op = "keyboard_controls" /\ ev'.input = {"Period"}
    \/ ev'.op = "update_ui_buttons" /\ ev'.input = "Step"

\* C1: while the simulation is paused, a frame of advance_simulation_time
\* leaves tick, simulation_time and accumulated_time as they were, whatever
\* the wall-clock delta and the time_scale.
C1_PausedFrameProducesNoSteps ==
    [][(AdvanceStep /\ ~sim_state.running) =>
          /\ sim_state'.tick = sim_state.tick
          /\ sim_state'.simulation_time = sim_state.simulation_time
          /\ sim_state'.accumulated_time = sim_state.accumulated_time]_vars

\* A paused frame with a positive delta has run, after earlier steps and at a
\* time_scale other than the default.
C1_Witness ==
    /\ ev.op = "advance_simulation_time"
    /\ ev.input > 0
    /\ ~sim_state.running
    /\ sim_state.time_scale # DefaultTimeScale
    /\ sim_state.tick > 0

\* C2: a manual single step (the Period key alone, or the Step button) adds
\* exactly 1 to tick and dt to simulation_time and changes nothing else of
\* the simulation state, running or paused.
C2_StepOnceAdvancesExactlyOne ==
    [][ManualStep =>
          sim_state' = [sim_state EXCEPT
                            !.tick = sim_state.tick + 1,
                            !.simulation_time = sim_state.simulation_time
                                                + sim_state.dt]]_vars

\* A manual step was taken while paused, with a remainder accumulated.
C2_Witness ==
    /\ ev.op = "keyboard_controls"
    /\ ev.input = {"Period"}
    /\ ~sim_state.running
    /\ sim_state.accumulated_time > 0
    /\ sim_state.tick > 1

\* C3: each time the physics stage has run, it has executed as many
\* integration steps as the tick loop and the manual steps have counted.
C3_EveryCountedStepIntegrated ==
    ev.op = "simulate_gravity_step" => integration_steps = sim_state.tick

\* C4 as stated: a running frame adds delta * time_scale to the remainder and
\* removes dt once per counted step while the remainder exceeds dt.
C4_DrainsWhileExceeds ==
    [][(AdvanceStep /\ sim_state.running) =>
          sim_state' = DrainAccumulated_Strict(
              [sim_state EXCEPT !.accumulated_time =
                   sim_state.accumulated_time
                   + ev'.input * sim_state.time_scale])]_vars

\* C4, amended: a running frame adds delta * time_scale to the remainder and
\* removes dt once per counted step while the remainder is at least dt: the
\* remainder it leaves is below dt, and the steps counted times dt plus that
\* remainder is the old remainder plus delta * time_scale.  With dt = 1/60,
\* time_scale = 1, an empty remainder and a delta of 2/60 it counts 2 steps
\* and leaves a remainder of 0.
C4_DrainsWhileAtLeast ==
    [][(AdvanceStep /\ sim_state.running) =>
          LET steps == sim_state'.tick - sim_state.tick IN
          /\ steps >= 0
          /\ sim_state'.accumulated_time \in 0..(sim_state.dt - 1)
          /\ steps * sim_state.dt + sim_state'.accumulated_time
                = sim_state.accumulated_time + ev'.input * sim_state.time_scale
          /\ sim_state'.simulation_time
                = sim_state.simulation_time + steps * sim_state.dt
          /\ sim_state'.running = sim_state.running
          /\ sim_state'.time_scale = sim_state.time_scale
          /\ (/\ sim_state.dt = DefaultDt
              /\ sim_state.time_scale = DefaultTimeScale
              /\ sim_state.accumulated_time = 0
              /\ ev'.input = 2)
             => (steps = 2 /\ sim_state'.accumulated_time = 0)]_vars

\* The frame of the scenario has run from the initial state: delta 2/60 at
\* time_scale 1 counted the ticks 1 and 2 and left no remainder.
C4_Witness ==
    /\ ev.op = "advance_simulation_time"
    /\ ev.input = 2
    /\ sim_state.running
    /\ sim_state.time_scale = DefaultTimeScale
    /\ sim_state.tick = 2
    /\ sim_state.simulation_time = 2 * DefaultDt
    /\ sim_state.accumulated_time = 0

----------------------------------------------------------------------------
(* The emergence rules on a lattice whose fields change from frame to frame. *)

\* Ticks are followed up to AstroMaxTick: three galaxy refresh intervals.
AstroMaxTick == 72

\* The wall-clock delta of a frame, in multiples of 1/60 s: every frame counts
\* formation_interval ticks.
AstroDeltas == {8}

AstroInit ==
    /\ sim_state = DefaultSimulationState
    /\ pending_steps = 0
    /\ integration_steps = 0
    /\ ran = {}
    /\ ev = [op |-> "startup", input |-> 0]
    /\ cell_position \in PositionCases
    /\ derived = DefaultDerivedFields
    /\ stars = <<>>
    /\ black_holes = <<>>
    /\ galaxies = <<>>
    /\ schedule = DefaultFormationSchedule
    /\ id_counter = 0
    /\ bh_last_run = 0
    /\ agents = <<>>
    /\ analysis_schedule = DefaultAnalysisSchedule
    /\ StartupResources

AstroNext ==
    \/ advance_simulation_time(AstroSystems, AstroDeltas, AstroMaxTick)
    \/ compute_derived_fields(AstroSystems, FieldCases)
    \/ spawn_stars_from_density(AstroSystems)
    \/ spawn_black_holes_from_density(AstroSystems)
    \/ identify_galaxies(AstroSystems)

AstroSpec == AstroInit /\ [][AstroNext]_vars

----------------------------------------------------------------------------
(* Properties of the emergence rules. *)

StarStep == ev'.op = "spawn_stars_from_density"

BlackHoleStep == ev'.op = "spawn_black_holes_from_density"

GalaxyStep == ev'.op = "identify_galaxies"

IsPrefix(s, t) == Len(s) <= Len(t) /\ SubSeq(t, 1, Len(s)) = s

\* C5: the star rule and the galaxy rule execute on a frame exactly when
\* current tick - last run tick >= interval and then set their last run tick
\* to the current tick, so consecutive executions are at least interval ticks
\* apart; a frame where the gate is not met changes no entity and no schedule
\* state; stars and galaxies change in no other way.
C5_CadenceGated ==
    [][/\ StarStep =>
            IF sim_state.tick - schedule.last_star_tick
                  >= settings.formation_interval
            THEN /\ ev'.input.executed
                 /\ schedule'.last_star_tick = sim_state.tick
                 /\ schedule'.last_star_tick - schedule.last_star_tick
                       >= settings.formation_interval
            ELSE /\ ~ev'.input.executed
                 /\ UNCHANGED <<stars, black_holes, galaxies, schedule,
                                id_counter>>
       /\ GalaxyStep =>
            IF sim_state.tick - schedule.last_galaxy_tick
                  >= settings.galaxy_refresh_interval
            THEN /\ ev'.input.executed
                 /\ schedule'.last_galaxy_tick = sim_state.tick
                 /\ schedule'.last_galaxy_tick - schedule.last_galaxy_tick
                       >= settings.galaxy_refresh_interval
            ELSE /\ ~ev'.input.executed
                 /\ UNCHANGED <<stars, black_holes, galaxies, schedule,
                                id_counter>>
       /\ stars' # stars => StarStep /\ ev'.input.executed
       /\ galaxies' # galaxies => GalaxyStep /\ ev'.input.executed]_vars

\* A galaxy frame whose gate is not met, after the galaxy rule and the star
\* rule have each executed before and with galaxies and stars present.
C5_Witness ==
    /\ ev.op = "identify_galaxies"
    /\ ~ev.input.executed
    /\ schedule.last_galaxy_tick >= settings.galaxy_refresh_interval
    /\ schedule.last_star_tick >= 2 * settings.formation_interval
    /\ sim_state.tick > schedule.last_galaxy_tick
    /\ Len(galaxies) > 0
    /\ Len(stars) > 0

\* C6: on a frame where current tick - tick of the last black-hole run >=
\* formation_interval the black-hole rule executes and creates a black hole
\* at every cell whose local_density and |curvature_proxy| exceed their
\* thresholds and that has no black hole within 0.9 * spacing.
C6_BlackHoleRuleIndependentlyGated ==
    [][(BlackHoleStep
        /\ sim_state.tick - bh_last_run >= settings.formation_interval) =>
          /\ ev'.input.executed
          /\ \A i \in Cells :
                (/\ derived[i].local_density
                       > settings.black_hole_density_threshold
                 /\ Abs(derived[i].curvature_proxy)
                       > settings.black_hole_curvature_threshold
                 /\ ~AlreadyPresent(black_holes, cell_position[i],
                                    BlackHoleAvoidanceRadius))
                => \E k \in (Len(black_holes) + 1)..Len(black_holes') :
                      black_holes'[k].translation = cell_position[i]]_vars

\* C7: once the star rule has executed, running it again on the same cell
\* positions and densities with the stars now present creates no star; and
\* from any state two passes in a row on the same field leave the second
\* with nothing to create.
C7_SecondStarPassCreatesNothing ==
    /\ (ev.op = "spawn_stars_from_density" /\ ev.input.executed)
          => StarsSpawned(1, cell_position, derived, stars) = <<>>
    /\ LET first == stars \o StarsSpawned(1, cell_position, derived, stars)
       IN  StarsSpawned(1, cell_position, derived, first) = <<>>

\* A pass has created a star beside the stars of an earlier pass, on a field
\* with a second qualifying cell that already had its star.
C7_Witness ==
    /\ ev.op = "spawn_stars_from_density"
    /\ ev.input.executed
    /\ ev.input.spawned >= 1
    /\ Len(stars) > ev.input.spawned
    /\ Cardinality({i \in Cells : derived[i].local_density
                                    >= settings.star_density_threshold})
          > ev.input.spawned

\* C8: no two stars are within the avoidance radius of each other.
C8_NoTwoStarsWithinAvoidanceRadius ==
    \A a, b \in 1..Len(stars) :
        a # b => Distance(stars[a].translation, stars[b].translation)
                    >= StarAvoidanceRadius

\* The keys of the regions that hold a cell at or above
\* galaxy_density_threshold.
DenseRegionKeys(fields) ==
    {RegionKey(i) :
        i \in {c \in Cells : fields[c].local_density
                                >= settings.galaxy_density_threshold}}

\* C9: on a galaxy refresh every galaxy whose region_key is the key of no
\* current high-density region has total_mass and radius multiplied by 0.9
\* and id, region_key, center and num_stars unchanged.
C9_UnmatchedGalaxyDecays ==
    [][(GalaxyStep /\ ev'.input.executed) =>
          \A k \in 1..Len(galaxies) :
              galaxies[k].region_key \notin DenseRegionKeys(derived) =>
                  /\ k <= Len(galaxies')
                  /\ 10 * galaxies'[k].total_mass = 9 * galaxies[k].total_mass
                  /\ 10 * galaxies'[k].radius = 9 * galaxies[k].radius
                  /\ galaxies'[k].id = galaxies[k].id
                  /\ galaxies'[k].region_key = galaxies[k].region_key
                  /\ galaxies'[k].center = galaxies[k].center
                  /\ galaxies'[k].num_stars = galaxies[k].num_stars]_vars

\* A refresh has faded a galaxy for the second time.
C9_Witness ==
    /\ ev.op = "identify_galaxies"
    /\ ev.input.executed
    /\ \E k \in 1..Len(galaxies) :
          /\ galaxies[k].id \in ev.input.faded
          /\ 100 * galaxies[k].radius = 81 * Spacing

C11_GalaxyIdsUniqueAndMonotonic ==
    [][/\ \A k \in 1..Len(galaxies) :
             /\ k <= Len(galaxies')
             /\ galaxies'[k].id = galaxies[k].id
       /\ \A k \in (Len(galaxies) + 1)..Len(galaxies') :
             \A j \in 1..(k - 1) : galaxies'[j].id < galaxies'[k].id
       /\ \A a, b \in 1..Len(galaxies') :
             a # b => galaxies'[a].id # galaxies'[b].id]_vars

\* A refresh has created a galaxy beside one created by an earlier refresh.
C11_Witness ==
    /\ ev.op = "identify_galaxies"
    /\ ev.input.executed
    /\ ev.input.spawned = 1
    /\ Len(galaxies) = 2
    /\ galaxies[2].id > galaxies[1].id

\* The sum, over the cells of region key at or above
\* galaxy_density_threshold, of local_density * weight.
RECURSIVE RegionSum(_, _, _, _)
RegionSum(i, key, fields, weight) ==
    IF i \notin Cells
    THEN 0
    ELSE (IF /\ RegionKey(i) = key
             /\ fields[i].local_density >= settings.galaxy_density_threshold
          THEN fields[i].local_density * weight[i]
          ELSE 0)
         + RegionSum(i + 1, key, fields, weight)

RegionMass(key, fields) == RegionSum(1, key, fields, [i \in Cells |-> 1])

\* The current regions that match no galaxy.
UnmatchedRegionKeys ==
    {key \in DenseRegionKeys(derived) :
        \A k \in 1..Len(galaxies) : galaxies[k].region_key # key}

\* The galaxies a step has created with region_key key.
NewGalaxiesOf(key) ==
    {k \in (Len(galaxies) + 1)..Len(galaxies') :
        galaxies'[k].region_key = key}

\* C12 as stated: on a refresh every region that matches no galaxy spawns
\* exactly one galaxy with its region_key when its mass is above
\* 3 * galaxy_density_threshold, and none when its mass is not above it.
C12_RegionAboveBoundSpawnsOne ==
    [][(GalaxyStep /\ ev'.input.executed) =>
          \A key \in UnmatchedRegionKeys :
              Cardinality(NewGalaxiesOf(key)) =
                  IF RegionMass(key, derived)
                        > 3 * settings.galaxy_density_threshold
                  THEN 1 ELSE 0]_vars

\* C12, amended: on a refresh every region that matches no galaxy spawns
\* exactly one galaxy with its region_key when its mass is at least
\* 3 * galaxy_density_threshold, and none when its mass is below it; the
\* galaxies created are those and no others.
C12_RegionAtLeastBoundSpawnsOne ==
    [][(GalaxyStep /\ ev'.input.executed) =>
          /\ \A key \in UnmatchedRegionKeys :
                Cardinality(NewGalaxiesOf(key)) =
                    IF RegionMass(key, derived)
                          >= 3 * settings.galaxy_density_threshold
                    THEN 1 ELSE 0
          /\ \A k \in (Len(galaxies) + 1)..Len(galaxies') :
                galaxies'[k].region_key \in UnmatchedRegionKeys]_vars

\* A refresh has created two galaxies, one of them for a region of exactly
\* the mass 3 * galaxy_density_threshold, after an earlier refresh that
\* created none.
C12_Witness ==
    /\ ev.op = "identify_galaxies"
    /\ ev.input.executed
    /\ ev.input.spawned = 2
    /\ Len(galaxies) = 2
    /\ schedule.last_galaxy_tick >= 2 * settings.galaxy_refresh_interval
    /\ \E k \in 1..Len(galaxies) :
          galaxies[k].total_mass = 3 * settings.galaxy_density_threshold

\* C13: on a refresh every galaxy whose region_key is the key of a current
\* region keeps its id and region_key and has total_mass, center, radius and
\* num_stars recomputed from the region, and no galaxy is created for that
\* region.
C13_MatchedGalaxyUpdatedInPlace ==
    [][(GalaxyStep /\ ev'.input.executed) =>
          \A k \in 1..Len(galaxies) :
              galaxies[k].region_key \in DenseRegionKeys(derived) =>
                  LET key    == galaxies[k].region_key
                      mass   == RegionMass(key, derived)
                      center == RegionSum(1, key, derived, cell_position)
                                    \div Max(mass, 1)
                      radius == Clamp(mass \div 20, Spacing, 8 * Spacing)
                  IN  /\ k <= Len(galaxies')
                      /\ galaxies'[k] =
                            [ id         |-> galaxies[k].id,
                              region_key |-> key,
                              total_mass |-> mass,
                              center     |-> center,
                              radius     |-> radius,
                              num_stars  |->
                                  Cardinality(
                                      {s \in 1..Len(stars) :
                                          Distance(stars[s].translation,
                                                   center) < radius}) ]
                      /\ NewGalaxiesOf(key) = {}]_vars

\* A refresh that created nothing has updated a galaxy in place to the mass
\* of its region, which is below the mass a new galaxy needs, with stars
\* counted inside its radius.
C13_Witness ==
    /\ ev.op = "identify_galaxies"
    /\ ev.input.executed
    /\ ev.input.spawned = 0
    /\ \E k \in 1..Len(galaxies) :
          /\ galaxies[k].region_key \in DenseRegionKeys(derived)
          /\ galaxies[k].total_mass = RegionMass(galaxies[k].region_key,
                                                 derived)
          /\ galaxies[k].total_mass < 3 * settings.galaxy_density_threshold
          /\ galaxies[k].num_stars > 0

\* C22 as stated, for the stages the Update schedule holds: in a frame the
\* scheduler runs before the field computation, and the field computation
\* before the star, black-hole and galaxy rules.
C22_StagesRunInFixedOrder ==
    [][/\ ev'.op = "compute_derived_fields"
             => "advance_simulation_time" \in ran
       /\ ev'.op \in {"spawn_stars_from_density",
                      "spawn_black_holes_from_density", "identify_galaxies"}
             => {"advance_simulation_time", "compute_derived_fields"}
                   \subseteq ran]_vars

\* The radius the refresh gives a region of mass: clamp(mass * 0.05, spacing,
\* 8 * spacing).
ClampedRadius(mass) ==
    IF mass \div 20 < Spacing THEN Spacing
    ELSE IF mass \div 20 > 8 * Spacing THEN 8 * Spacing
    ELSE mass \div 20

\* Masses whose radius is the lower bound, in between, and the upper bound.
RadiusProbeMasses == {0, 3 * Scale, 100 * Scale, 300 * Scale}

\* C24 as stated: every galaxy has radius = clamp(total_mass * 0.05, spacing,
\* 8 * spacing), so its radius lies in [spacing, 8 * spacing].
C24_EveryRadiusIsClampOfMass ==
    \A k \in 1..Len(galaxies) :
        /\ galaxies[k].radius = ClampedRadius(galaxies[k].total_mass)
        /\ galaxies[k].radius >= Spacing
        /\ galaxies[k].radius <= 8 * Spacing

\* C24, amended: after a refresh every galaxy the refresh has matched to a
\* current region or created has radius = clamp(total_mass * 0.05, spacing,
\* 8 * spacing), within [spacing, 8 * spacing]; a galaxy whose region is gone
\* has 0.9 times the radius it had.  The radius of a region is that clamp
\* for masses below, within and above the bounds.
C24_RefreshedRadiusIsClampOfMass ==
    [][(GalaxyStep /\ ev'.input.executed) =>
          /\ \A k \in 1..Len(galaxies') :
                IF galaxies'[k].region_key \in DenseRegionKeys(derived)
                THEN /\ galaxies'[k].radius
                           = ClampedRadius(galaxies'[k].total_mass)
                     /\ galaxies'[k].radius >= Spacing
                     /\ galaxies'[k].radius <= 8 * Spacing
                ELSE /\ k <= Len(galaxies)
                     /\ galaxies'[k].radius = (galaxies[k].radius * 9) \div 10
          /\ \A mass \in RadiusProbeMasses :
                GalaxyRadius(mass) = ClampedRadius(mass)]_vars

\* A refresh has matched one galaxy, whose radius is the lower bound, and
\* faded another, whose radius is below it.
C24_Witness ==
    /\ ev.op = "identify_galaxies"
    /\ ev.input.executed
    /\ \E k, j \in 1..Len(galaxies) :
          /\ galaxies[k].region_key \in DenseRegionKeys(derived)
          /\ galaxies[k].radius = Spacing
          /\ galaxies[j].id \in ev.input.faded
          /\ galaxies[j].radius < Spacing

\* C30: after a refresh no two galaxies share a region_key; a galaxy that
\* has faded and whose region is there again is updated in place, with its
\* id and region_key, and no galaxy is created for that region.
C30_OneGalaxyPerRegion ==
    [][(GalaxyStep /\ ev'.input.executed) =>
          /\ \A a, b \in 1..Len(galaxies') :
                a # b => galaxies'[a].region_key # galaxies'[b].region_key
          /\ \A k \in 1..Len(galaxies) :
                (/\ HasFaded(galaxies[k])
                 /\ galaxies[k].region_key \in DenseRegionKeys(derived))
                => /\ galaxies'[k].id = galaxies[k].id
                   /\ galaxies'[k].region_key = galaxies[k].region_key
                   /\ galaxies'[k].total_mass
                         = RegionMass(galaxies[k].region_key, derived)
                   /\ ~HasFaded(galaxies'[k])
                   /\ NewGalaxiesOf(galaxies[k].region_key) = {}]_vars

\* A refresh has matched a galaxy that had faded to its region, heavy enough
\* for a new galaxy, and has created none.
C30_Witness ==
    /\ ev.op = "identify_galaxies"
    /\ ev.input.executed
    /\ ev.input.spawned = 0
    /\ \E k \in 1..Len(galaxies) :
          /\ galaxies[k].id \in ev.input.revived
          /\ galaxies[k].total_mass >= 3 * settings.galaxy_density_threshold
          /\ galaxies[k].total_mass
                = RegionMass(galaxies[k].region_key, derived)

----------------------------------------------------------------------------
(* The report log under a sequence of pushes. *)

\* Reports pushed in a run.
MaxPushes == 130

\* The capacities a log is configured with; 0 is the default.
ConfiguredMaxReports == {0, 2, 3}

\* The state at startup except for the resources a check draws itself.
StartupSchedule ==
    /\ sim_state = DefaultSimulationState
    /\ pending_steps = 0
    /\ integration_steps = 0
    /\ ran = {}
    /\ ev = [op |-> "startup", input |-> 0]
    /\ cell_position = LatticePositions
    /\ derived = DefaultDerivedFields
    /\ stars = <<>>
    /\ black_holes = <<>>
    /\ galaxies = <<>>
    /\ schedule = DefaultFormationSchedule
    /\ id_counter = 0
    /\ bh_last_run = 0
    /\ agents = <<>>
    /\ analysis_schedule = DefaultAnalysisSchedule

\* A caller pushes its next report; the reports are numbered in push order.
\* A log of small capacity is filled by two agents in any order.
AstroReportLog_push ==
    /\ calls < MaxPushes
    /\ \E agent_id \in (IF report_log.max_reports \in 1..3 THEN {1, 2}
                        ELSE {1}) :
          LET report == [tick |-> calls + 1, agent_id |-> agent_id] IN
          /\ report_log' = push(report_log, report)
          /\ ev' = [op |-> "push", input |-> report]
    /\ calls' = calls + 1
    /\ UNCHANGED <<ran, universe, bodies, params, kernel, energy, metrics>>
    /\ UNCHANGED sched_vars
    /\ UNCHANGED astro_vars
    /\ UNCHANGED agent_vars

LogInit ==
    /\ StartupSchedule
    /\ universe = PruUniverse_new(GridDimensions, Spacing)
    /\ bodies = SetupBodies(PruUniverse_new(GridDimensions, Spacing),
                            LockPattern, UniformMass, AtRest, AtRest)
    /\ params = DefaultGravityParams
    /\ kernel = NoKernel
    /\ energy = DefaultSimulationEnergy
    /\ metrics = DefaultFieldMetrics
    /\ \E max_reports \in ConfiguredMaxReports :
          report_log = [reports |-> <<>>, max_reports |-> max_reports]
    /\ calls = 0

LogNext == AstroReportLog_push

LogSpec == LogInit /\ [][LogNext]_vars

\* The last n elements of a sequence, all of it if it is shorter.
LastOf(seq, n) ==
    SubSeq(seq, Len(seq) - (IF n < Len(seq) THEN n ELSE Len(seq)) + 1,
           Len(seq))

\* C15: after a push the log is no longer than max_reports, which is 128 if
\* it was left at 0 and is otherwise as configured; the log holds the most
\* recent reports in push order: the reports it held and the new one, less
\* the oldest of them beyond max_reports.
C15_ReportLogKeepsMostRecent ==
    [][ev'.op = "push" =>
          /\ report_log'.max_reports =
                (IF report_log.max_reports = 0 THEN DefaultMaxReports
                 ELSE report_log.max_reports)
          /\ Len(report_log'.reports) <= report_log'.max_reports
          /\ report_log'.reports =
                LastOf(Append(report_log.reports, ev'.input),
                       report_log'.max_reports)
          /\ \A k \in 1..Len(report_log'.reports) :
                report_log'.reports[k].tick
                   = calls' - Len(report_log'.reports) + k]_vars

\* A log left at capacity 0 holds 128 reports after more than 128 pushes,
\* the first of them gone.
C15_Witness ==
    /\ ev.op = "push"
    /\ calls > DefaultMaxReports
    /\ report_log.max_reports = DefaultMaxReports
    /\ Len(report_log.reports) = DefaultMaxReports
    /\ report_log.reports[1].tick = calls - DefaultMaxReports + 1

----------------------------------------------------------------------------
(* The field pass of universe.rs with its metrics, on cells that move. *)

\* Iterations of the physics loop followed in a run.
MaxSteps == 2

\* Field passes followed in a run: the history starts with 32 samples and
\* holds 64.
MaxPasses == 34

\* Iterations of the physics loop between the field passes of a run.
MaxFieldSteps == 1

\* One iteration of the loop of simulate_gravity_step over the pending steps;
\* a run follows max_steps of them.
fixed_step(max_steps) ==
    /\ integration_steps < max_steps
    /\ bodies' = FixedStep(params, universe, kernel, bodies, sim_state.dt)
    /\ integration_steps' = integration_steps + 1
    /\ ev' = [op |-> "fixed_step",
              input |->
                 [had_acceleration |->
                     \E i \in DOMAIN bodies : bodies[i].acceleration # Zero3,
                  had_velocity |->
                     \E i \in DOMAIN bodies : bodies[i].velocity # Zero3,
                  clamped |->
                     {i \in DOMAIN bodies :
                         ExceedsMax(AccumulateForces(params, universe, kernel,
                                        ResetAccelerations(bodies))[i]
                                       .acceleration, params)}]]
    /\ UNCHANGED <<sim_state, pending_steps, ran>>
    /\ UNCHANGED astro_vars
    /\ UNCHANGED <<universe, params, kernel, energy, metrics, report_log,
                   calls>>
    /\ UNCHANGED agent_vars

\* compute_derived_fields as the program computes it: the Gaussian sums over
\* all cells, then the metrics and the density history.
compute_derived_fields_pass ==
    /\ calls < MaxPasses
    /\ IF Len(bodies) = 0
       THEN UNCHANGED <<derived, metrics>>
       ELSE LET smoothing_inv == SmoothingInv(universe.spacing)
                fields == [i \in DOMAIN bodies |->
                              DerivedOf(i, bodies, smoothing_inv)]
            IN  /\ derived' = fields
                /\ metrics' = UpdatedMetrics(metrics, fields)
    /\ calls' = calls + 1
    /\ ev' = [op |-> "compute_derived_fields", input |-> 0]
    /\ UNCHANGED sched_vars
    /\ UNCHANGED <<ran, cell_position, stars, black_holes, galaxies, schedule,
                   id_counter, bh_last_run>>
    /\ UNCHANGED <<universe, bodies, params, kernel, energy, report_log>>
    /\ UNCHANGED agent_vars

FieldBodyCases == {MovingPair, DriftingRow, HeadOnPair}

FieldInit ==
    /\ StartupSchedule
    /\ \E case \in FieldBodyCases :
          /\ universe = case.universe
          /\ bodies = case.bodies
    /\ params = [DefaultGravityParams EXCEPT !.mode = "NaiveNBody"]
    /\ kernel = NoKernel
    /\ energy = DefaultSimulationEnergy
    /\ metrics = DefaultFieldMetrics
    /\ report_log = DefaultAstroReportLog
    /\ calls = 0

FieldNext ==
    \/ fixed_step(MaxFieldSteps)
    \/ compute_derived_fields_pass

FieldSpec == FieldInit /\ [][FieldNext]_vars

\* C14: a field pass appends the average density it computed at the back of
\* the history and evicts from the front what exceeds max_history: the
\* history is then the most recent samples in arrival order, at most
\* max_history of them, and nothing else changes it.
C14_DensityHistoryBoundedFifo ==
    [][/\ ev'.op = "compute_derived_fields" =>
             /\ metrics'.avg_density =
                   Quot(SumUpTo([i \in DOMAIN derived' |->
                                    derived'[i].local_density],
                                Len(derived')),
                        Len(derived'))
             /\ Len(metrics'.density_history) <= metrics'.max_history
             /\ Len(metrics'.density_history) > 0
             /\ metrics'.density_history[Len(metrics'.density_history)]
                   = metrics'.avg_density
             /\ metrics'.density_history =
                   LastOf(Append(metrics.density_history,
                                 metrics'.avg_density),
                          metrics.max_history)
             /\ metrics'.max_history = metrics.max_history
       /\ ev'.op # "compute_derived_fields" => metrics' = metrics]_vars

\* The history is full and its oldest sample has been evicted: the two
\* newest samples were taken before and after the cells moved.
C14_Witness ==
    /\ ev.op = "compute_derived_fields"
    /\ calls > DefaultMaxHistory - InitialHistoryLen
    /\ Len(metrics.density_history) = metrics.max_history
    /\ metrics.density_history[Len(metrics.density_history)] > 0
    /\ metrics.density_history[Len(metrics.density_history)]
          # metrics.density_history[Len(metrics.density_history) - 1]
    /\ metrics.density_history[Len(metrics.density_history) - 1] > 0

----------------------------------------------------------------------------
(* The physics stage and the energy diagnostics. *)

compute_energy_metrics ==
    /\ energy' = EnergyMetrics(params, energy, bodies)
    /\ ev' = [op |-> "compute_energy_metrics", input |-> 0]
    /\ UNCHANGED sched_vars
    /\ UNCHANGED astro_vars
    /\ UNCHANGED <<ran, universe, bodies, params, kernel, metrics, report_log,
                   calls>>
    /\ UNCHANGED agent_vars

PhysInit ==
    /\ StartupSchedule
    /\ \E case \in BodyCases :
          /\ universe = case.universe
          /\ bodies = case.bodies
    /\ params \in ParamCases
    /\ kernel \in {NoKernel, RelationalKernel_new(universe.spacing)}
    /\ energy = DefaultSimulationEnergy
    /\ metrics = DefaultFieldMetrics
    /\ report_log = DefaultAstroReportLog
    /\ calls = 0

PhysNext ==
    \/ fixed_step(MaxSteps)
    \/ compute_energy_metrics

PhysSpec == PhysInit /\ [][PhysNext]_vars

EnergyStep == ev'.op = "compute_energy_metrics"

FixedStepTaken == ev'.op = "fixed_step"

\* C16: initial_total is captured on the first diagnostics pass whose total
\* has |total| > 1e-9 and is never changed after; relative_drift is absent
\* until then, and on the capturing pass and every later one it is
\* (total - initial_total) / initial_total.
C16_InitialTotalCapturedOnce ==
    [][/\ EnergyStep =>
             /\ energy.initial_total.some
                   => energy'.initial_total = energy.initial_total
             /\ ~energy.initial_total.some
                   => energy'.initial_total =
                         (IF Abs(energy'.total) > EnergyEpsilon
                          THEN Some(energy'.total) ELSE None)
             /\ energy'.relative_drift =
                   (IF energy'.initial_total.some
                    THEN Some(Div(energy'.total - energy'.initial_total.value,
                                  energy'.initial_total.value))
                    ELSE None)
       /\ ~EnergyStep => energy' = energy]_vars

\* A pass has left initial_total as an earlier pass captured it, with a total
\* that has drifted from it; and the first pass of that run saw a total of 0
\* and captured nothing.
C16_Witness ==
    /\ ev.op = "compute_energy_metrics"
    /\ energy.initial_total.some
    /\ energy.total # energy.initial_total.value
    /\ energy.relative_drift.some
    /\ energy.relative_drift.value # 0

\* A pass whose total is 0 has captured nothing and left no drift.
C16_NothingCapturedYet ==
    /\ ev.op = "compute_energy_metrics"
    /\ energy.total = 0
    /\ energy.kinetic > 0
    /\ ~energy.initial_total.some
    /\ ~energy.relative_drift.some

\* The two cells of the scenario: masses 1.0, at rest, 2 apart, with
\* g_effective 1 and no softening.
RestPairScenario ==
    /\ Len(bodies) = 2
    /\ \A i \in DOMAIN bodies :
          bodies[i].mass = Scale /\ bodies[i].velocity = Zero3
    /\ length(VSub(bodies[2].position, bodies[1].position)) = 2 * Scale
    /\ params.g_effective = Scale
    /\ params.softening_length = 0

\* C17: for two cells at rest with masses 1.0, 2 apart, with g_effective 1
\* and softening_length 0, the diagnostics give kinetic 0, potential -0.5 and
\* total -0.5, and initial_total is that total.
C17_RestPairEnergy ==
    (ev.op = "compute_energy_metrics" /\ RestPairScenario) =>
        /\ energy.kinetic = 0
        /\ energy.potential = -(Scale \div 2)
        /\ energy.total = -(Scale \div 2)
        /\ energy.initial_total = Some(-(Scale \div 2))

C17_Witness ==
    /\ ev.op = "compute_energy_metrics"
    /\ RestPairScenario
    /\ energy.initial_total.some

\* C18: a fixed step leaves what it would leave had every acceleration been
\* zero before it; with gravity disabled every acceleration is zero after
\* the step, the velocity is damped only, and the position has moved by that
\* velocity times dt.
C18_AccelerationResetEveryStep ==
    [][FixedStepTaken =>
          /\ bodies' = FixedStep(params, universe, kernel,
                           [i \in DOMAIN bodies |->
                               [bodies[i] EXCEPT !.acceleration = Zero3]],
                           sim_state.dt)
          /\ ~params.enabled =>
                \A i \in DOMAIN bodies :
                   /\ bodies'[i].acceleration = Zero3
                   /\ bodies'[i].velocity =
                         VMul(bodies[i].velocity,
                              Scale - Quot(params.damping * sim_state.dt,
                                           DtDenominator))
                   /\ bodies'[i].position =
                         VAdd(bodies[i].position,
                              VQuot(VTimes(bodies'[i].velocity, sim_state.dt),
                                    DtDenominator))
                   /\ bodies'[i].mass = bodies[i].mass]_vars

\* A step with gravity disabled has run on cells that had accelerations and
\* velocities: the accelerations are zero and the cells are moving.
C18_Witness ==
    /\ ev.op = "fixed_step"
    /\ ~params.enabled
    /\ ev.input.had_acceleration
    /\ ev.input.had_velocity
    /\ \A i \in DOMAIN bodies : bodies[i].acceleration = Zero3
    /\ \E i \in DOMAIN bodies : bodies[i].velocity # Zero3

\* The unit masses are counted in where forces are summed.
MassUnit == Scale \div 2

\* The sum over the cells of mass * acceleration.
NetForce(b) ==
    VSumUpTo([i \in DOMAIN b |->
                 VTimes(b[i].acceleration, b[i].mass \div MassUnit)],
             Len(b))

NaiveEnabled == params.enabled /\ params.mode = "NaiveNBody"

\* C19: in NaiveNBody mode the two contributions of a pair, accel_a added to
\* the first cell and accel_b subtracted from the second, are equal and
\* opposite when weighted by the masses, and the accelerations a step has
\* accumulated sum to a zero net force.
C19_PairForcesEqualAndOpposite ==
    [][(FixedStepTaken /\ NaiveEnabled) =>
          /\ \A i, j \in DOMAIN bodies :
                i < j =>
                   LET pair == PairAccel(bodies[i], bodies[j], params) IN
                   VTimes(pair.accel_a, bodies[i].mass \div MassUnit)
                      = VNeg(VTimes(VNeg(pair.accel_b),
                                    bodies[j].mass \div MassUnit))
          /\ NetForce(AccumulateForces(params, universe, kernel,
                                       ResetAccelerations(bodies))) = Zero3
          /\ \A i \in DOMAIN bodies :
                i \notin ev'.input.clamped =>
                   bodies'[i].acceleration =
                      AccumulateForces(params, universe, kernel,
                          ResetAccelerations(bodies))[i].acceleration]_vars

\* A NaiveNBody step has accumulated forces on a lattice of cells of
\* different masses.
C19_Witness ==
    /\ ev.op = "fixed_step"
    /\ NaiveEnabled
    /\ Len(bodies) > 2
    /\ \E i, j \in DOMAIN bodies : bodies[i].mass # bodies[j].mass
    /\ \E i \in DOMAIN bodies : bodies[i].acceleration # Zero3

\* Cells c and d are axis neighbors: their grid coordinates differ by one in
\* exactly one axis.
AxisNeighbors(c, d) ==
    Abs(bodies[c].grid_coords[1] - bodies[d].grid_coords[1])
    + Abs(bodies[c].grid_coords[2] - bodies[d].grid_coords[2])
    + Abs(bodies[c].grid_coords[3] - bodies[d].grid_coords[3]) = 1

\* The (grid_coords, mass) snapshot of the cells, cell d given mass v.
PerturbedCellData(d, v) ==
    [i \in DOMAIN bodies |->
        [grid_coords |-> bodies[i].grid_coords,
         mass        |-> IF i = d THEN v ELSE bodies[i].mass]]

RelationalEnabled ==
    params.enabled /\ params.mode = "RelationalLattice" /\ kernel.present

\* C20: the acceleration apply_relational_gravity computes for a cell c is
\* the same on two lattice states that differ only in the mass of a cell d
\* that is not an axis neighbor of c, d = c included; and the acceleration a
\* RelationalLattice step has left on c is that one.
C20_RelationalLatticeStrictlyLocal ==
    kernel.present =>
        \A c, d \in DOMAIN bodies :
            ~AxisNeighbors(c, d) =>
                \A v \in MassValues :
                    LET perturbed ==
                            apply_relational_gravity(params, universe, kernel,
                                PerturbedCellData(d, v), bodies)
                        original ==
                            apply_relational_gravity(params, universe, kernel,
                                PerturbedCellData(d, bodies[d].mass), bodies)
                    IN  /\ perturbed[c].acceleration
                              = original[c].acceleration
                        /\ (ev.op = "fixed_step" /\ RelationalEnabled)
                              => bodies[c].acceleration
                                    = perturbed[c].acceleration

\* A RelationalLattice step has run on a lattice with cells that are not
\* neighbors, of different masses, and has left a cell accelerated.
C20_Witness ==
    /\ ev.op = "fixed_step"
    /\ RelationalEnabled
    /\ \E c, d \in DOMAIN bodies :
          /\ c # d
          /\ ~AxisNeighbors(c, d)
          /\ bodies[c].mass # bodies[d].mass
          /\ bodies[c].acceleration # Zero3

\* dims.x * dims.y * dims.z
Volume(dims) == dims[1] * dims[2] * dims[3]

\* The cells at lattice coordinates coord.
CellsAt(coord) == {d \in DOMAIN bodies : bodies[d].grid_coords = coord}

\* What the cells at coord add to the acceleration of a cell through the
\* kernel weight of the offset that leads to coord: nothing if there is no
\* such cell.
PresentNeighborTerm(coord, weight) ==
    IF CellsAt(coord) = {}
    THEN Zero3
    ELSE VTimes(weight,
                Mul(Mul(params.g_effective,
                        bodies[CHOOSE d \in CellsAt(coord) : TRUE].mass),
                    SoftenedGain(params)))

\* C21: in the relational solver a neighbor offset that leaves the lattice
\* contributes nothing: the acceleration a RelationalLattice step leaves on a
\* cell is the sum of the contributions of the cells that exist at its six
\* neighbor coordinates.  The mass table has dims.x * dims.y * dims.z
\* entries, and every index written for a cell or read for a neighbor within
\* the bounds lies within 0..volume - 1.
C21_OutOfBoundsNeighborContributesNothing ==
    (ev.op = "fixed_step" /\ RelationalEnabled) =>
        LET dims == universe.grid_dimensions
            mass_field ==
                MassField([i \in DOMAIN bodies |->
                              [grid_coords |-> bodies[i].grid_coords,
                               mass |-> bodies[i].mass]], dims)
        IN  /\ DOMAIN mass_field = 0..(Volume(dims) - 1)
            /\ \A c \in DOMAIN bodies :
                  /\ idx(bodies[c].grid_coords, dims) \in DOMAIN mass_field
                  /\ \A o \in 1..Len(kernel.offsets) :
                        LET neighbor ==
                                VAdd(bodies[c].grid_coords, kernel.offsets[o])
                        IN  /\ InBounds(neighbor, dims)
                                  => idx(neighbor, dims) \in DOMAIN mass_field
                            /\ ~InBounds(neighbor, dims)
                                  => /\ CellsAt(neighbor) = {}
                                     /\ NeighborContribution(neighbor,
                                            kernel.weights[o], params, dims,
                                            mass_field) = Zero3
                  /\ bodies[c].acceleration =
                        VSumUpTo([o \in 1..Len(kernel.offsets) |->
                                     PresentNeighborTerm(
                                         VAdd(bodies[c].grid_coords,
                                              kernel.offsets[o]),
                                         kernel.weights[o])],
                                 Len(kernel.offsets))

\* A RelationalLattice step has run on a lattice that extends along all
\* three axes and has accelerated a corner cell, three of whose neighbor
\* offsets leave the lattice.
C21_Witness ==
    /\ ev.op = "fixed_step"
    /\ RelationalEnabled
    /\ \A a \in 1..3 : universe.grid_dimensions[a] > 1
    /\ \E c \in DOMAIN bodies :
          /\ bodies[c].grid_coords = <<0, 0, 0>>
          /\ bodies[c].acceleration # Zero3
          /\ Cardinality({o \in 1..Len(kernel.offsets) :
                 ~InBounds(VAdd(bodies[c].grid_coords, kernel.offsets[o]),
                           universe.grid_dimensions)}) = 3
    /\ \E c \in DOMAIN bodies :
          idx(bodies[c].grid_coords, universe.grid_dimensions)
             = Volume(universe.grid_dimensions) - 1

\* (1 - damping * dt) in thousandths.
DampingFactor == Scale - Quot(params.damping * sim_state.dt, DtDenominator)

\* C26: in every integration step the acceleration the step has accumulated
\* on a cell is, where its length exceeds max_acceleration, replaced by
\* itself times the one factor max_acceleration / length, so that its length
\* is max_acceleration at most (and within a hundredth of it), and kept
\* otherwise; the velocity change
\* acceleration * dt is max_acceleration * dt at most in length; the
\* velocity is that sum times (1 - damping * dt), and the position advances
\* by the new velocity times dt.
C26_AccelerationClampedThenIntegrated ==
    [][FixedStepTaken =>
          LET accumulated == AccumulateForces(params, universe, kernel,
                                 ResetAccelerations(bodies))
              max == InTenths(params.max_acceleration)
          IN  \A i \in DOMAIN bodies :
                 LET raw    == accumulated[i].acceleration
                     len    == AccelLength(raw)
                     used   == bodies'[i].acceleration
                     change == VQuot(VTimes(used, sim_state.dt),
                                     DtDenominator * Scale)
                 IN  /\ len <= max => used = raw
                     /\ len > max =>
                           /\ i \in ev'.input.clamped
                           /\ used = VTimes(VQuot(raw, Scale),
                                            Quot(max * Scale, len))
                           /\ AccelLength(used) <= max
                           /\ 100 * AccelLength(used) >= 99 * max
                     /\ length(change)
                           <= Quot(params.max_acceleration * sim_state.dt,
                                   DtDenominator)
                     /\ bodies'[i].velocity
                           = VMul(VAdd(bodies[i].velocity, change),
                                  DampingFactor)
                     /\ bodies'[i].position
                           = VAdd(bodies[i].position,
                                  VQuot(VTimes(bodies'[i].velocity,
                                               sim_state.dt),
                                        DtDenominator))]_vars

\* A step has clamped an acceleration that points along no axis, on a cell
\* that is moving, with damping.
C26_Witness ==
    /\ ev.op = "fixed_step"
    /\ params.damping > 0
    /\ \E i \in ev.input.clamped :
          /\ bodies[i].acceleration[1] # 0
          /\ bodies[i].acceleration[2] # 0
          /\ Abs(bodies[i].acceleration[1]) # Abs(bodies[i].acceleration[2])
          /\ bodies[i].velocity # Zero3

\* C27 as stated: after a field pass the curvature_proxy of every cell i is
\* geom_lock_i minus the weight-normalised average of geom_lock_j over all
\* cells j # i, a cell at the position of i included, and 0 where that
\* weight sum is 0.
C27_CurvatureAveragesAllOtherCells ==
    ev.op = "compute_derived_fields" =>
        \A i \in DOMAIN bodies :
            LET smoothing_inv == SmoothingInv(universe.spacing)
                weight ==
                    [j \in DOMAIN bodies |->
                        IF j = i THEN 0
                        ELSE Weight(length(VSub(bodies[j].position,
                                                bodies[i].position)),
                                    smoothing_inv)]
                ub_weighted ==
                    SumUpTo([j \in DOMAIN bodies |->
                                IF j = i THEN 0
                                ELSE Mul(bodies[j].ub_geom_lock, weight[j])],
                            Len(bodies))
                ub_weight_sum == SumUpTo(weight, Len(bodies))
            IN  derived[i].curvature_proxy =
                    IF ub_weight_sum > 0
                    THEN bodies[i].ub_geom_lock
                            - Div(ub_weighted, ub_weight_sum)
                    ELSE 0

----------------------------------------------------------------------------
(* The speed controls over the whole range of time_scale. *)

ControlSystems == {"keyboard_controls", "update_ui_buttons"}

SpeedKeys == {"Minus", "Equal"}

SpeedButtons == {"None", "Slower", "Faster"}

SpeedInit == SchedInit

SpeedNext ==
    \/ keyboard_controls(ControlSystems, SUBSET SpeedKeys,
                         MinTimeScale..MaxTimeScale, MaxTick)
    \/ update_ui_buttons(ControlSystems, SpeedButtons,
                         MinTimeScale..MaxTimeScale, MaxTick)

SpeedSpec == SpeedInit /\ [][SpeedNext]_vars

\* Deltas adjust_speed is probed with, in tenths: the two of the controls,
\* none, and deltas that pass either limit from anywhere.
SpeedDeltas ==
    {-2 * MaxTimeScale, -MaxTimeScale, -SpeedDelta, 0, SpeedDelta,
     MaxTimeScale, 2 * MaxTimeScale}

\* C28: after any sequence of adjust_speed calls time_scale lies within
\* [0.1, 10.0]: it does in every state the speed keys and buttons lead to,
\* and adjust_speed with any delta leaves it there, as the sum clamped to
\* that range, and changes no other field of the simulation state.
C28_TimeScaleStaysInRange ==
    /\ sim_state.time_scale >= MinTimeScale
    /\ sim_state.time_scale <= MaxTimeScale
    /\ \A delta \in SpeedDeltas :
          LET after == adjust_speed(sim_state, delta) IN
          /\ after.time_scale >= MinTimeScale
          /\ after.time_scale <= MaxTimeScale
          /\ after.time_scale =
                (IF sim_state.time_scale + delta < MinTimeScale
                 THEN MinTimeScale
                 ELSE IF sim_state.time_scale + delta > MaxTimeScale
                 THEN MaxTimeScale
                 ELSE sim_state.time_scale + delta)
          /\ after.tick = sim_state.tick
          /\ after.running = sim_state.running
          /\ after.accumulated_time = sim_state.accumulated_time
          /\ after.simulation_time = sim_state.simulation_time
          /\ after.dt = sim_state.dt
    /\ sim_state.tick = 0
    /\ sim_state.running
    /\ sim_state.accumulated_time = 0
    /\ sim_state.simulation_time = 0

\* The slow-down key has been pressed at the lower limit, which holds.
C28_Witness ==
    /\ ev.op = "keyboard_controls"
    /\ ev.input = {"Minus"}
    /\ sim_state.time_scale = MinTimeScale
    /\ ran = {}

\* The speed-up button has been pressed at the upper limit, which holds.
C28_AtUpperLimit ==
    /\ ev.op = "update_ui_buttons"
    /\ ev.input = "Faster"
    /\ sim_state.time_scale = MaxTimeScale
    /\ ran = {}

----------------------------------------------------------------------------
(* The gravity controls. *)

\* Presses of the controls followed from a starting point, in any
\* directions.
MaxConfigSteps == 2

\* Parameters the controls lead to from the defaults: the defaults
\* themselves, and points a press or two from the lower limits, from the
\* upper limits of the keys, and from the upper limits of the buttons.
ConfigStarts ==
    { DefaultGravityParams,
      [DefaultGravityParams EXCEPT
          !.g_effective = GravityStep,
          !.damping = DampingStep,
          !.softening_length = Scale \div 100],
      [DefaultGravityParams EXCEPT
          !.g_effective = 5 * Scale - GravityStep,
          !.damping = Scale - DampingStep,
          !.softening_length = 2 * Scale - SofteningStep \div 2],
      [DefaultGravityParams EXCEPT
          !.g_effective = 5 * Scale,
          !.damping = Scale - DampingStep,
          !.softening_length = 3 * Scale - SofteningStep \div 2] }

\* The presses between two values of a parameter, rounded up.
PressesBetween(x, y, step) == (Abs(x - y) + step - 1) \div step

\* The part of the parameter space a run follows.
ConfigWindow(p) ==
    \E start \in ConfigStarts :
        PressesBetween(p.g_effective, start.g_effective, GravityStep)
        + PressesBetween(p.damping, start.damping, DampingStep)
        + PressesBetween(p.softening_length, start.softening_length,
                         SofteningStep)
           <= MaxConfigSteps

\* The sets of gravity keys pressed in one frame: up to two keys, the three
\* decrement keys, or all of them.
GravityPresses ==
    {keys \in SUBSET GravityKeys : Cardinality(keys) <= 2}
       \cup {{"BracketLeft", "Comma", "Semicolon"}, GravityKeys}

ConfigInit ==
    /\ StartupSchedule
    /\ universe = PruUniverse_new(GridDimensions, Spacing)
    /\ bodies = SetupBodies(PruUniverse_new(GridDimensions, Spacing),
                            LockPattern, UniformMass, AtRest, AtRest)
    /\ params \in ConfigStarts
    /\ kernel = NoKernel
    /\ energy = DefaultSimulationEnergy
    /\ metrics = DefaultFieldMetrics
    /\ report_log = DefaultAstroReportLog
    /\ calls = 0

ConfigNext ==
    \/ /\ keyboard_controls(ControlSystems, GravityPresses,
                            {DefaultTimeScale}, MaxTick)
       /\ ConfigWindow(params')
    \/ /\ update_ui_buttons(ControlSystems, GravityButtons \cup {"None"},
                            {DefaultTimeScale}, MaxTick)
       /\ ConfigWindow(params')

ConfigSpec == ConfigInit /\ [][ConfigNext]_vars

\* C23: after any sequence of inputs to the gravity controls g_effective >= 0,
\* softening_length > 0, damping is within [0, 1] and max_acceleration > 0
\* (it is the default none of the controls changes); the controls keep
\* g_effective at 5.0 at most and softening_length within [0.01, 3.0].
C23_GravityParamsStayValid ==
    /\ params.g_effective >= 0
    /\ params.softening_length > 0
    /\ params.damping >= 0
    /\ params.damping <= Scale
    /\ params.max_acceleration > 0
    /\ params.max_acceleration = DefaultGravityParams.max_acceleration
    /\ params.g_effective <= 5 * Scale
    /\ params.softening_length >= Scale \div 100
    /\ params.softening_length <= 3 * Scale
    /\ params.mode = DefaultGravityParams.mode

\* The three decrement keys have been pressed together with all three
\* parameters at their lower limits, which hold.
C23_Witness ==
    /\ ev.op = "keyboard_controls"
    /\ {"BracketLeft", "Comma", "Semicolon"} \subseteq ev.input
    /\ ev.input \cap {"BracketRight", "Slash", "Quote"} = {}
    /\ params.g_effective = 0
    /\ params.damping = 0
    /\ params.softening_length = Scale \div 100

\* The increment buttons have been pressed at the upper limits, which hold.
C23_AtUpperLimits ==
    /\ ev.op = "update_ui_buttons"
    /\ ev.input = "SofteningUp"
    /\ params.softening_length = 3 * Scale
    /\ params.g_effective = 5 * Scale
    /\ params.damping = Scale

----------------------------------------------------------------------------
(* The emergence rules with the agents of the galaxies, under frames and    *)
(* manual steps.                                                            *)

AgentSystems ==
    AstroSystems
       \cup {"update_ui_buttons", "attach_agents_to_galaxies",
             "analyze_agents"}

\* Ticks are followed up to AgentMaxTick: two galaxy refresh intervals and
\* two manual steps.
AgentMaxTick == 50

\* The wall-clock delta of a frame, in multiples of 1/60 s: every frame counts
\* galaxy_refresh_interval ticks.
AgentDeltas == {24}

StepButtons == {"None", "Step"}

\* The derived fields of a pass: a cell dense enough for a star and a galaxy
\* in either region; the same with the cell of the first region curved
\* enough for a black hole and that of the second region heavier by 5.125%;
\* the cell of the second region heavier by a quarter; and no cell dense.
AgentFieldCases ==
    { Field(4 * Scale, Scale, Scale, 4 * Scale, 0),
      Field(4 * Scale, Scale, Scale, (4205 * Scale) \div 1000,
            (3 * Scale) \div 10),
      Field(4 * Scale, Scale, Scale, 5 * Scale, 0),
      Field(Scale, Scale, Scale, Scale, 0) }

AgentInit == SchedInit

AgentNext ==
    \/ update_ui_buttons(AgentSystems, StepButtons, {DefaultTimeScale},
                         AgentMaxTick)
    \/ advance_simulation_time(AgentSystems, AgentDeltas, AgentMaxTick)
    \/ compute_derived_fields(AgentSystems, AgentFieldCases)
    \/ spawn_stars_from_density(AgentSystems)
    \/ spawn_black_holes_from_density(AgentSystems)
    \/ identify_galaxies(AgentSystems)
    \/ attach_agents_to_galaxies(AgentSystems)
    \/ analyze_agents(AgentSystems)

AgentSpec == AgentInit /\ [][AgentNext]_vars

AnalysisStep == ev'.op = "analyze_agents"

\* The reports a step has appended.
NewReports ==
    SubSeq(report_log'.reports, Len(report_log.reports) + 1,
           Len(report_log'.reports))

\* The entities of a list within the radius of a galaxy.
CountWithin(list, galaxy) ==
    Cardinality({n \in DOMAIN list :
                    Abs(list[n].translation - galaxy.center)
                       < Max(galaxy.radius, Scale \div 10)})

\* The counts of galaxy k differ from the previous sample of its agent.
CountsDiffer(k) ==
    \/ CountWithin(stars, galaxies[k]) # agents[k].last_star_count
    \/ CountWithin(black_holes, galaxies[k]) # agents[k].last_black_holes

\* What an analysis step does but for the mass test: on a pass the log grows
\* by one entry of the current tick for every agent expected to report and
\* by none for every other, and every agent keeps the sample; with the gate
\* closed the log and the agents stay as they are.
AnalysisReports(expected) ==
    IF ev'.input.executed
    THEN /\ IsPrefix(report_log.reports, report_log'.reports)
         /\ \A n \in DOMAIN NewReports : NewReports[n].tick = sim_state.tick
         /\ \A k \in DOMAIN agents :
               /\ Cardinality({n \in DOMAIN NewReports :
                                  NewReports[n].agent_id = agents[k].id})
                     = (IF k \in expected THEN 1 ELSE 0)
               /\ agents'[k].last_mass = galaxies[k].total_mass
               /\ agents'[k].last_star_count
                     = CountWithin(stars, galaxies[k])
               /\ agents'[k].last_black_holes
                     = CountWithin(black_holes, galaxies[k])
    ELSE report_log' = report_log /\ agents' = agents

\* C25 as stated, the mass change taken relative to the previous sample: on
\* an analysis pass a summary is appended for a galaxy exactly when its mass
\* has changed by more than 5% of the mass of the previous sample (by
\* anything, if that mass is 0) or a count differs from the previous sample.
C25_ReportsOnRelativeChange ==
    [][AnalysisStep =>
          AnalysisReports(
              {k \in DOMAIN agents :
                  \/ Abs(galaxies[k].total_mass - agents[k].last_mass) * 20
                        > agents[k].last_mass
                  \/ CountsDiffer(k)})]_vars

\* C25, amended: on an analysis pass a summary is appended for a galaxy
\* exactly when its mass differs from the previous sample by more than 5% of
\* its current mass or a count differs from the previous sample; a galaxy
\* whose mass and counts are unchanged produces no entry.
C25_ReportsOnChange ==
    [][AnalysisStep =>
          /\ AnalysisReports(
                {k \in DOMAIN agents :
                    \/ Abs(galaxies[k].total_mass - agents[k].last_mass) * 20
                          > galaxies[k].total_mass
                    \/ CountsDiffer(k)})
          /\ \A k \in DOMAIN agents :
                (/\ galaxies[k].total_mass = agents[k].last_mass
                 /\ ~CountsDiffer(k))
                => agents[k].id \notin ev'.input.reported]_vars

\* A pass after the first has appended a summary for one galaxy and none for
\* another, whose mass and counts were as sampled before.
C25_Witness ==
    /\ ev.op = "analyze_agents"
    /\ ev.input.executed
    /\ Len(agents) = 2
    /\ \E k, j \in DOMAIN agents :
          /\ agents[k].id \in ev.input.reported
          /\ agents[j].id \notin ev.input.reported
          /\ agents[j].id \notin ev.input.quiet
          /\ agents[j].last_mass > 0
          /\ report_log.reports[Len(report_log.reports)].agent_id
                = agents[k].id
          /\ \E n \in DOMAIN report_log.reports :
                /\ report_log.reports[n].agent_id = agents[j].id
                /\ report_log.reports[n].tick < sim_state.tick

\* A pass has appended nothing for a galaxy whose mass has changed by more
\* than 5% of the previous sample and less than 5% of the current mass.
C25_ChangeWithinFivePercent ==
    /\ ev.op = "analyze_agents"
    /\ ev.input.executed
    /\ ev.input.quiet # {}

\* A pass has appended a summary for a galaxy of unchanged mass that has a
\* black hole it had not.
C25_BlackHoleCountChanged ==
    /\ ev.op = "analyze_agents"
    /\ ev.input.executed
    /\ \E k \in DOMAIN agents :
          /\ agents[k].id \in ev.input.reported
          /\ agents[k].last_black_holes = 1
          /\ \E n \in DOMAIN report_log.reports :
                /\ report_log.reports[n].agent_id = agents[k].id
                /\ report_log.reports[n].tick < sim_state.tick

\* C29: the tick never decreases, and in every state the last-run ticks of
\* the star rule, the galaxy rule and the analysis are at most the current
\* tick, so that tick - last run is never negative in a cadence gate.
C29_LastRunTicksNeverAhead ==
    [][/\ sim_state'.tick >= sim_state.tick
       /\ schedule.last_star_tick <= sim_state.tick
       /\ schedule.last_galaxy_tick <= sim_state.tick
       /\ analysis_schedule.last_agent_tick <= sim_state.tick
       /\ schedule'.last_star_tick <= sim_state'.tick
       /\ schedule'.last_galaxy_tick <= sim_state'.tick
       /\ analysis_schedule'.last_agent_tick <= sim_state'.tick
       /\ ev'.op \in {"spawn_stars_from_density",
                      "spawn_black_holes_from_density"}
             => sim_state.tick - schedule.last_star_tick >= 0
       /\ ev'.op = "identify_galaxies"
             => sim_state.tick - schedule.last_galaxy_tick >= 0
       /\ ev'.op = "analyze_agents"
             => sim_state.tick - analysis_schedule.last_agent_tick >= 0]_vars

\* A manual step has been taken after all three rules have run, two of them
\* on the tick before it.
C29_Witness ==
    /\ ev.op = "update_ui_buttons"
    /\ ev.input = "Step"
    /\ schedule.last_star_tick > 0
    /\ schedule.last_galaxy_tick > 0
    /\ analysis_schedule.last_agent_tick > 0
    /\ sim_state.tick = schedule.last_star_tick + 1
    /\ sim_state.tick = analysis_schedule.last_agent_tick + 1
====
